---- MODULE Spec2Model ----
(***************************************************************************)
(* memAI: conversational memory for a chat client of a locally hosted      *)
(* language model.  The module models                                      *)
(*   - the adaptive budget allocator and its complexity analyzer           *)
(*     (archive/MemoryAI_Bundle/src/adaptive_budget_manager.py),           *)
(*   - the token estimators (token_counter.py, memai.py),                  *)
(*   - the per-model stores and their trimming                             *)
(*     (memai.py MemoryManager; model_specific_memory.py),                 *)
(*   - the context composer (unified_memory_manager.py).                   *)
(* Floating point values of the source are carried as exact fixed-point    *)
(* integers: a complexity score c is the integer c * 10^4, a percentage is *)
(* kept as a numerator over a power of ten, and int(x) is truncation.      *)
(***************************************************************************)
EXTENDS Integers, Sequences, FiniteSets, TLC

VARIABLES
    alloc,      \* the last call of calculate_adaptive_budgets: its arguments and result
    impl,       \* which program runs: "cli" (memai.py) or "bundle" (MemoryAI_Bundle)
    strict,     \* SafetyValidator.strict_mode of the bundle (config strict_validation)
    files,      \* memai.py: model -> the exchanges persisted in its conversation file
    memory,     \* bundle: model -> current_conversation of its memory file
    appended,   \* history: model -> every exchange appended since the last clear
    clock,      \* number of add_exchange calls so far (stands for datetime.now())
    pending,    \* bundle: UnifiedMemoryInterface._pending_exchange
    last        \* the last operation: its name, arguments and what it returned

vars == <<alloc, impl, strict, files, memory, appended, clock, pending, last>>

----------------------------------------------------------------------------
(* Arithmetic helpers *)

Max(a, b) == IF a >= b THEN a ELSE b

Min(a, b) == IF a <= b THEN a ELSE b

\* Python's int(num / den) for den > 0: truncation toward zero.
IntDiv(num, den) == IF num >= 0 THEN num \div den ELSE -((-num) \div den)

\* ceil(num / den) for num >= 0, den > 0
CeilDiv(num, den) == (num + den - 1) \div den

RECURSIVE SqrtSearch(_, _, _)
SqrtSearch(x, lo, hi) ==
    IF lo >= hi THEN lo
    ELSE LET mid == (lo + hi + 1) \div 2
         IN  IF mid * mid <= x THEN SqrtSearch(x, mid, hi)
             ELSE SqrtSearch(x, lo, mid - 1)

\* math.sqrt(count) carried to three decimals: floor(1000 * sqrt(count))
Sqrt1000(count) == SqrtSearch(count * 1000000, 0, 46340)

RECURSIVE SumOver(_, _)
SumOver(S, f) ==
    IF S = {} THEN 0
    ELSE LET x == CHOOSE y \in S : TRUE
         IN  f[x] + SumOver(S \ {x}, f)

----------------------------------------------------------------------------
(* ComplexityFactors: adaptive_budget_manager.py 20-51.  Weights are tenths. *)

ANALYSIS_KEYWORDS ==
    [analyze |-> 20, explain |-> 15, compare |-> 20, evaluate |-> 25,
     implement |-> 30, create |-> 20, design |-> 25, develop |-> 25,
     optimize |-> 25, debug |-> 20, refactor |-> 20, review |-> 15,
     summarize |-> 15, research |-> 20, investigate |-> 20]

QUESTION_INDICATORS ==
    [how |-> 10, what |-> 5, why |-> 15, when |-> 5, where |-> 5,
     which |-> 8, who |-> 3, can_you |-> 12, could_you |-> 12,
     explain_how |-> 20, show_me |-> 15, help_me |-> 18]

\* the indicators that are also counted as question words (besides "?")
QuestionWords == {"how", "what", "why", "when", "where", "which"}

SHORT_QUERY == 50

MEDIUM_QUERY == 150

LONG_QUERY == 300

----------------------------------------------------------------------------
(* Queries.  A query is carried as what the analyzer reads off its text:   *)
(*   len     len(user_input.strip())                                       *)
(*   kws     keyword -> text.count(keyword), for the keywords that occur   *)
(*   fenced  matches of the fenced code block pattern                      *)
(*   other   matches of the other five CODE_PATTERNS together              *)
(*   inds    the QUESTION_INDICATORS that occur in the text                *)
(*   qmark   whether "?" occurs                                            *)
(* isStr = FALSE stands for a non-string argument.                         *)

Query(n, k, f, o, i, q) ==
    [isStr |-> TRUE, len |-> n, kws |-> k, fenced |-> f, other |-> o,
     inds |-> i, qmark |-> q]

NoKeywords == [w \in {} |-> 0]

\* None
QNone == [isStr |-> FALSE, len |-> 0, kws |-> NoKeywords, fenced |-> 0,
          other |-> 0, inds |-> {}, qmark |-> FALSE]

\* ""
QEmpty == Query(0, NoKeywords, 0, 0, {}, FALSE)

\* "hi"
QHi == Query(2, NoKeywords, 0, 0, {}, FALSE)

\* "implement a caching layer"
QImplement == Query(25, [implement |-> 1], 0, 0, {}, FALSE)

\* "optimize optimize"
QOptimize2 == Query(17, [optimize |-> 2], 0, 0, {}, FALSE)

\* "optimize " * 100
QOptimize100 == Query(899, [optimize |-> 100], 0, 0, {}, FALSE)

\* "how why explain how can you help me show me?"
QQuestions ==
    Query(44, [explain |-> 1], 0, 0,
          {"how", "why", "explain_how", "can_you", "help_me", "show_me"}, TRUE)

\* "please implement and design it, then evaluate and optimize; explain how it
\* works and why, help me? ```a``` ```b``` <p> " padded with "x" to 1400 characters
QHard ==
    Query(1400, [implement |-> 1, design |-> 1, evaluate |-> 1, optimize |-> 1,
                 explain |-> 1], 2, 4,
          {"how", "why", "explain_how", "help_me"}, TRUE)

\* len(keyword) for the ANALYSIS_KEYWORDS
KeywordLen ==
    [analyze |-> 7, explain |-> 7, compare |-> 7, evaluate |-> 8, implement |-> 9,
     create |-> 6, design |-> 6, develop |-> 7, optimize |-> 8, debug |-> 5,
     refactor |-> 8, review |-> 6, summarize |-> 9, research |-> 8,
     investigate |-> 11]

\* "how what why when where which who can you could you explain how show me
\* help me? ": every question indicator, the keyword "explain" once, 81 characters
AllIndicators == DOMAIN QUESTION_INDICATORS

\* the text made of each keyword of keywords followed by a space, reps times,
\* then fences times "```a``` ", tags times "<p> ", the question text above when
\* questions, and pad times "x"; stripped of the space it may end with
StuffedQuery(keywords, reps, fences, tags, questions, pad) ==
    LET used == IF reps > 0 THEN keywords ELSE {}
        kws == [k \in used \cup (IF questions THEN {"explain"} ELSE {}) |->
                   (IF k \in used THEN reps ELSE 0)
                   + (IF questions /\ k = "explain" THEN 1 ELSE 0)]
        raw == SumOver(used, [k \in used |-> (KeywordLen[k] + 1) * reps])
               + 8 * fences + 4 * tags + (IF questions THEN 81 ELSE 0) + pad
        stripped == IF raw > 0 /\ pad = 0 THEN raw - 1 ELSE raw
    IN  Query(stripped, kws, fences,
              (IF fences > 0 THEN 2 * fences - 1 ELSE 0) + tags,
              IF questions THEN AllIndicators ELSE {}, questions)

Queries == {QNone, QEmpty, QHi, QImplement, QOptimize2, QOptimize100, QQuestions, QHard}

----------------------------------------------------------------------------
(* AdaptiveBudgetManager: the complexity analyzer.  Scores are in 10^-4.   *)

\* adaptive_budget_manager.py 146-157
_calculate_length_complexity(length) ==
    IF length <= SHORT_QUERY THEN 1000
    ELSE IF length <= MEDIUM_QUERY THEN 3000
    ELSE IF length <= LONG_QUERY THEN 6000
    ELSE Min(9000, 6000 + (length - LONG_QUERY) * 3)

\* adaptive_budget_manager.py 159-182
_calculate_keyword_complexity(text, text_length) ==
    LET present == {k \in DOMAIN text.kws : text.kws[k] > 0}
        \* weight * sqrt(count), in 10^-4
        keyword_weights ==
            SumOver(present, [k \in present |-> ANALYSIS_KEYWORDS[k] * Sqrt1000(text.kws[k])])
        keyword_count == SumOver(present, [k \in present |-> text.kws[k]])
        \* density = keyword_count / max(1, text_length / 10) > 0.3
        stuffed == IF text_length <= 10 THEN 10 * keyword_count > 3
                   ELSE 100 * keyword_count > 3 * text_length
        penalized == IF stuffed THEN keyword_weights \div 2 ELSE keyword_weights
    IN  IF keyword_weights = 0 THEN 0
        ELSE Min(10000, penalized \div 10)

\* adaptive_budget_manager.py 184-197
_calculate_code_complexity(text) ==
    Min(10000, text.fenced * 5000 + text.other * 1000)

\* adaptive_budget_manager.py 199-214
_calculate_question_complexity(text) ==
    LET question_score == SumOver(text.inds, [i \in text.inds |-> QUESTION_INDICATORS[i]])
        question_count == Cardinality(text.inds \cap QuestionWords)
                          + (IF text.qmark THEN 1 ELSE 0)
        \* tenths, times 1.2 when more than one question word, over 5, in 10^-4
        scaled == IF question_count > 1 THEN question_score * 240
                  ELSE question_score * 200
    IN  Min(10000, scaled)

\* a variant that does not clamp the weighted sum
analyze_complexity_NoClamp(user_input, mode) ==
    IF ~user_input.isStr \/ user_input.len = 0 THEN 1000
    ELSE LET weighted == _calculate_length_complexity(user_input.len) * 25
                         + _calculate_keyword_complexity(user_input, user_input.len) * 30
                         + _calculate_code_complexity(user_input) * 25
                         + _calculate_question_complexity(user_input) * 20
         IN  (IF mode = "tools" THEN (weighted * 12) \div 10 ELSE weighted) \div 100

\* adaptive_budget_manager.py 99-144: the score in 10^-4, clamped to [0, 1]
analyze_complexity(user_input, mode) ==
    IF ~user_input.isStr \/ user_input.len = 0 THEN 1000
    ELSE LET length_score == _calculate_length_complexity(user_input.len)
             keyword_score == _calculate_keyword_complexity(user_input, user_input.len)
             code_score == _calculate_code_complexity(user_input)
             question_score == _calculate_question_complexity(user_input)
             \* weights 0.25, 0.30, 0.25, 0.20: the sum in 10^-6
             weighted == length_score * 25 + keyword_score * 30
                         + code_score * 25 + question_score * 20
             adjusted == IF mode = "tools" THEN (weighted * 12) \div 10 ELSE weighted
         IN  Max(0, Min(10000, adjusted \div 100))

----------------------------------------------------------------------------
(* AdaptiveBudgetManager: the allocator.                                   *)

Modes == {"chat", "tools", "TOOLS", "xyz"}

\* mode.lower()
Lower(mode) == IF mode = "TOOLS" THEN "tools" ELSE mode

\* adaptive_budget_manager.py 230-233: InteractionMode(mode.lower()), CHAT on ValueError
InteractionMode(mode) == IF Lower(mode) \in {"tools", "chat"} THEN Lower(mode) ELSE "chat"

\* adaptive_budget_manager.py 62-79: the fixed percentages, in tenths of a percent
base_budgets ==
    [tools |-> [system_prompt |-> 30, tool_definitions |-> 60,
                safety_margin |-> 50, reserved |-> 0],
     chat  |-> [system_prompt |-> 6, tool_definitions |-> 0,
                safety_margin |-> 50, reserved |-> 4]]

\* adaptive_budget_manager.py 82-97: percent
adaptive_ranges ==
    [tools |-> [response_min |-> 16, response_max |-> 26,
                memory_min |-> 45, memory_max |-> 55],
     chat  |-> [response_min |-> 12, response_max |-> 22,
                memory_min |-> 38, memory_max |-> 50]]

Abs(x) == IF x >= 0 THEN x ELSE -x

Sign(x) == IF x >= 0 THEN 1 ELSE -1

\* int(w * p / 10^6) for w >= 0 and 0 <= p < 10^6, without leaving 32 bits
FloorMillionths(w, p) ==
    (w * (p \div 1000) + (w * (p % 1000)) \div 1000) \div 1000

\* ceil(w * r / 10^8) for w >= 0 and 0 <= r < 2 * 10^9, without leaving 32 bits
CeilHundredMillionths(w, r) ==
    LET t0 == w * (r % 1000)
        t1 == w * ((r \div 1000) % 1000) + CeilDiv(t0, 1000)
        t2 == w * (r \div 1000000) + CeilDiv(t1, 1000)
    IN  CeilDiv(t2, 100)

\* adaptive_budget_manager.py 243-244: adaptive_response - response_min, in 10^-4 percent
ResponseGain(mode, complexity) ==
    LET ranges == adaptive_ranges[InteractionMode(mode)]
    IN  complexity * (ranges.response_max - ranges.response_min)

\* adaptive_budget_manager.py 248: response_range / (adaptive_response - response_min)
\* raises ZeroDivisionError when the response did not move
DividesByZero(mode, user_input) ==
    ResponseGain(mode, analyze_complexity(user_input, mode)) = 0

\* a variant in which the memory share does not move with the complexity
memory_reduction_None(mode, complexity) == 0

\* adaptive_budget_manager.py 247-249: memory_reduction, in 10^-8 percent.
\* complexity * (memory_range / (response_range / gain)), the gain being a
\* multiple of response_range
memory_reduction(mode, complexity) ==
    LET ranges == adaptive_ranges[InteractionMode(mode)]
        response_range == ranges.response_max - ranges.response_min
        memory_range == ranges.memory_max - ranges.memory_min
    IN  complexity * memory_range * (ResponseGain(mode, complexity) \div response_range)

\* adaptive_budget_manager.py 258-261: int(context_window * (percentage / 100.0))
AbsoluteBudgets(context_window, mode, complexity) ==
    LET m == InteractionMode(mode)
        base == base_budgets[m]
        ranges == adaptive_ranges[m]
        w == Abs(context_window)
        sg == Sign(context_window)
        fixed(tenths) == sg * ((w * tenths) \div 1000)
        response_tokens ==
            FloorMillionths(w, ranges.response_min * 10000 + ResponseGain(mode, complexity))
        memory_tokens ==
            (w * ranges.memory_max
             - CeilHundredMillionths(w, memory_reduction(mode, complexity))) \div 100
    IN  [system_prompt |-> fixed(base.system_prompt),
         tool_definitions |-> fixed(base.tool_definitions),
         conversation_memory |-> sg * memory_tokens,
         response_generation |-> sg * response_tokens,
         safety_margin |-> fixed(base.safety_margin),
         reserved |-> fixed(base.reserved)]

\* ApplyMinimumMemory with the response taken below its 10% floor and the
\* reserved bucket overdrawn
ApplyMinimumMemory_NoFloors(b, context_window, minimum_memory_needed) ==
    IF minimum_memory_needed > b.conversation_memory
    THEN LET shortage == minimum_memory_needed - b.conversation_memory
         IN  [b EXCEPT !.reserved = 0,
                        !.response_generation = @ - (shortage - b.reserved),
                        !.conversation_memory = minimum_memory_needed]
    ELSE b

\* adaptive_budget_manager.py 263-281: the minimum memory requirement
ApplyMinimumMemory(b, context_window, minimum_memory_needed) ==
    IF minimum_memory_needed > b.conversation_memory
    THEN LET shortage == minimum_memory_needed - b.conversation_memory
             available_reserved == b.reserved
         IN  IF available_reserved >= shortage
             THEN [b EXCEPT !.reserved = @ - shortage,
                            !.conversation_memory = minimum_memory_needed]
             ELSE [b EXCEPT !.reserved = Max(IntDiv(context_window * 2, 100), 0),
                            !.response_generation =
                                Max(IntDiv(context_window, 10),
                                    @ - (shortage - available_reserved)),
                            !.conversation_memory = minimum_memory_needed]
    ELSE b

\* adaptive_budget_manager.py 216-283
calculate_adaptive_budgets(context_window, mode, user_input, minimum_memory_needed) ==
    LET complexity == analyze_complexity(user_input, mode)
    IN  ApplyMinimumMemory(AbsoluteBudgets(context_window, mode, complexity),
                           context_window, minimum_memory_needed)

Buckets == {"system_prompt", "tool_definitions", "conversation_memory",
            "response_generation", "safety_margin", "reserved"}

\* sum(budgets.values())
TotalAllocated(b) == SumOver(Buckets, b)

----------------------------------------------------------------------------
(* Texts and the token estimators.  A text is carried as what the          *)
(* estimators read off it:                                                 *)
(*   chars     len(text)                                                   *)
(*   emoji     matches of emoji_pattern                                    *)
(*   symbols   matches of symbol_pattern                                   *)
(*   nonascii  characters with ord(c) > 127 (the emoji among them)         *)
(*   longw     sum of len(word) - 20 over the words longer than 20         *)

\* a text of n ASCII letters in words of at most 20 letters
Plain(n) == [chars |-> n, emoji |-> 0, symbols |-> 0, nonascii |-> 0, longw |-> 0]

NoText == Plain(0)

\* " ".join(["ab"]*pairs + ["a"*(20+extra)]*longwords + [emoji]*emojis
\*          + ["é"]*accents + ["#"]*hashes)
Mixed(pairs, longwords, extra, emojis, accents, hashes) ==
    LET words == pairs + longwords + emojis + accents + hashes
    IN  [chars |-> 2 * pairs + (20 + extra) * longwords + emojis + accents + hashes
                   + Max(0, words - 1),
         emoji |-> emojis, symbols |-> hashes, nonascii |-> emojis + accents,
         longw |-> extra * longwords]

\* an argument that is no str: truthy is bool(text), strlen is len(str(text))
NonText(truthy, strlen) == [truthy |-> truthy, strlen |-> strlen]

\* isinstance(text, str)
IsStr(text) == "chars" \in DOMAIN text

\* bool(text)
Truthy(text) == IF IsStr(text) THEN text.chars > 0 ELSE text.truthy

\* len(str(text))
StrLen(text) == IF IsStr(text) THEN text.chars ELSE text.strlen

\* token_counter.py 45-74 computes in double precision.  On these texts of the
\* input sets the product adjusted_estimate * 1.2 is a whole number in exact
\* arithmetic and one ulp less in doubles, so that int() yields one less:
\* "e", "ab é é é" and 35 letters.
RoundsBelow ==
    {[chars |-> 4, emoji |-> 1, symbols |-> 0, nonascii |-> 1, longw |-> 0],
     [chars |-> 8, emoji |-> 0, symbols |-> 0, nonascii |-> 3, longw |-> 0],
     [chars |-> 35, emoji |-> 0, symbols |-> 0, nonascii |-> 0, longw |-> 0]}

\* int(adjusted_estimate * 1.2) for an adjusted estimate given in thirtieths
FloatInt(text, adjusted_estimate) ==
    IntDiv(adjusted_estimate * 12, 300) - (IF text \in RoundsBelow THEN 1 ELSE 0)

\* a variant without the long-word penalty
SimpleTokenCounter_estimate_tokens_NoLongWords(text) ==
    IF ~IsStr(text) \/ text.chars = 0 THEN 0
    ELSE Max(1, FloatInt(text, Max(30, 10 * text.chars) + 60 * text.emoji
                               + 9 * text.symbols
                               + 15 * (text.nonascii - text.emoji)))

\* token_counter.py 31-76: SimpleTokenCounter.estimate_tokens with base_ratio 3.0
\* and safety_multiplier 1.2.  The adjusted estimate is kept in thirtieths.
SimpleTokenCounter_estimate_tokens(text) ==
    IF ~IsStr(text) \/ text.chars = 0 THEN 0
    ELSE LET base_estimate == Max(30, 10 * text.chars)
             emoji_adjustment == 60 * text.emoji
             symbol_adjustment == 9 * text.symbols
             unicode_adjustment == 15 * (text.nonascii - text.emoji)
             long_word_penalty == 3 * Max(0, text.longw)
             adjusted_estimate == base_estimate + emoji_adjustment + symbol_adjustment
                                  + unicode_adjustment + long_word_penalty
             final_estimate == FloatInt(text, adjusted_estimate)
         IN  Max(1, final_estimate)

\* memai.py 56-60: TokenEstimator.estimate_tokens with chars_per_token 3.0
TokenEstimator_estimate_tokens(text) ==
    IF ~Truthy(text) THEN 0
    ELSE Max(1, StrLen(text) \div 3)

\* memai.py 62-70: TokenEstimator.estimate_conversation_tokens
RECURSIVE TokenEstimator_estimate_conversation_tokens(_)
TokenEstimator_estimate_conversation_tokens(exchanges) ==
    IF exchanges = <<>> THEN 0
    ELSE TokenEstimator_estimate_tokens(Head(exchanges).user)
         + TokenEstimator_estimate_tokens(Head(exchanges).assistant)
         + TokenEstimator_estimate_conversation_tokens(Tail(exchanges))

\* token_counter.py 90-116: SimpleTokenCounter.estimate_conversation_tokens on a
\* list of messages (records with a content) or of exchanges (user and assistant)
RECURSIVE SimpleTokenCounter_estimate_conversation_tokens(_)
SimpleTokenCounter_estimate_conversation_tokens(conversation) ==
    IF conversation = <<>> THEN 0
    ELSE LET message == Head(conversation)
             here ==
                 IF "content" \in DOMAIN message
                 THEN SimpleTokenCounter_estimate_tokens(message.content)
                 ELSE IF "user" \in DOMAIN message /\ "assistant" \in DOMAIN message
                 THEN SimpleTokenCounter_estimate_tokens(message.user.content)
                      + SimpleTokenCounter_estimate_tokens(message.assistant.content)
                 ELSE 0
         IN  here + SimpleTokenCounter_estimate_conversation_tokens(Tail(conversation))

----------------------------------------------------------------------------
(* UnifiedMemoryManager: trimming and composing (unified_memory_manager.py) *)

\* a variant that counts the user side only
_estimate_exchange_tokens_UserOnly(exchange) ==
    IF "user" \in DOMAIN exchange /\ "tokens" \in DOMAIN exchange.user
    THEN exchange.user.tokens ELSE 0

\* unified_memory_manager.py 492-510: the stored token count when there is one,
\* the estimate of the content otherwise; nothing for a record that is no exchange
_estimate_exchange_tokens(exchange) ==
    LET part(role) ==
            IF role \in DOMAIN exchange
            THEN IF "tokens" \in DOMAIN exchange[role] THEN exchange[role].tokens
                 ELSE IF "content" \in DOMAIN exchange[role]
                 THEN SimpleTokenCounter_estimate_tokens(exchange[role].content)
                 ELSE 0
            ELSE 0
    IN  part("user") + part("assistant")

\* unified_memory_manager.py 481-488: the loop over reversed(conversation); i is
\* the number of exchanges still to visit, trimmed the suffix selected so far
RECURSIVE TrimLoop(_, _, _, _, _)
TrimLoop(conversation, budget, i, trimmed, current_tokens) ==
    IF i = 0 THEN trimmed
    ELSE LET exchange == conversation[i]
             exchange_tokens == _estimate_exchange_tokens(exchange)
         IN  IF current_tokens + exchange_tokens <= budget
             THEN TrimLoop(conversation, budget, i - 1, <<exchange>> \o trimmed,
                           current_tokens + exchange_tokens)
             ELSE trimmed

\* a variant that keeps the oldest exchange that fits instead of the newest ones
_trim_conversation_to_budget_OldestFirst(conversation, budget) ==
    IF conversation = <<>> \/ budget <= 0 THEN <<>>
    ELSE IF _estimate_exchange_tokens(conversation[1]) <= budget
    THEN <<conversation[1]>> ELSE <<>>

\* a variant that passes over an exchange that does not fit and goes on to the
\* older ones
RECURSIVE TrimLoop_SkipOversize(_, _, _, _, _)
TrimLoop_SkipOversize(conversation, budget, i, trimmed, current_tokens) ==
    IF i = 0 THEN trimmed
    ELSE LET exchange == conversation[i]
             exchange_tokens == _estimate_exchange_tokens(exchange)
         IN  IF current_tokens + exchange_tokens <= budget
             THEN TrimLoop_SkipOversize(conversation, budget, i - 1,
                                        <<exchange>> \o trimmed,
                                        current_tokens + exchange_tokens)
             ELSE TrimLoop_SkipOversize(conversation, budget, i - 1, trimmed,
                                        current_tokens)

_trim_conversation_to_budget_SkipOversize(conversation, budget) ==
    IF conversation = <<>> \/ budget <= 0 THEN <<>>
    ELSE TrimLoop_SkipOversize(conversation, budget, Len(conversation), <<>>, 0)

\* unified_memory_manager.py 472-490
_trim_conversation_to_budget(conversation, budget) ==
    IF conversation = <<>> \/ budget <= 0 THEN <<>>
    ELSE TrimLoop(conversation, budget, Len(conversation), <<>>, 0)

\* full_history[-n:] for n >= 1
LastN(seq, n) == SubSeq(seq, Max(1, Len(seq) - n + 1), Len(seq))

\* a variant without the floor of minimum_exchanges
_get_conversation_within_budget_NoFloor(full_history, budget, minimum_exchanges) ==
    _trim_conversation_to_budget(full_history, budget)

\* unified_memory_manager.py 451-470, on the loaded history
_get_conversation_within_budget(full_history, budget, minimum_exchanges) ==
    IF full_history = <<>> THEN <<>>
    ELSE IF Len(full_history) <= minimum_exchanges THEN full_history
    ELSE LET trimmed == _trim_conversation_to_budget(full_history, budget)
         IN  IF Len(trimmed) < minimum_exchanges /\ Len(full_history) >= minimum_exchanges
             THEN LastN(full_history, minimum_exchanges)
             ELSE trimmed

\* unified_memory_manager.py 512-529: a message per non-empty content
RECURSIVE _build_context_messages(_)
_build_context_messages(conversation_history) ==
    IF conversation_history = <<>> THEN <<>>
    ELSE LET exchange == Head(conversation_history)
             u == IF exchange.user.content.chars > 0
                  THEN <<[role |-> "user", content |-> exchange.user.content]>>
                  ELSE <<>>
             a == IF exchange.assistant.content.chars > 0
                  THEN <<[role |-> "assistant", content |-> exchange.assistant.content]>>
                  ELSE <<>>
         IN  u \o a \o _build_context_messages(Tail(conversation_history))

----------------------------------------------------------------------------
(* memai.py MemoryManager: the store of the command line client *)

\* a variant without the floor of one exchange
RECURSIVE _trim_to_context_window_NoFloor(_, _)
_trim_to_context_window_NoFloor(exchanges, context_window) ==
    IF exchanges = <<>> THEN exchanges
    ELSE IF 10 * TokenEstimator_estimate_conversation_tokens(exchanges) <= 8 * context_window
    THEN exchanges
    ELSE _trim_to_context_window_NoFloor(Tail(exchanges), context_window)

\* a variant that removes the exchange before the newest instead of the oldest
RECURSIVE _trim_to_context_window_DropsInside(_, _)
_trim_to_context_window_DropsInside(exchanges, context_window) ==
    IF Len(exchanges) <= 1 THEN exchanges
    ELSE IF 10 * TokenEstimator_estimate_conversation_tokens(exchanges) <= 8 * context_window
    THEN exchanges
    ELSE _trim_to_context_window_DropsInside(
             SubSeq(exchanges, 1, Len(exchanges) - 2)
                 \o <<exchanges[Len(exchanges)]>>, context_window)

\* memai.py 182-203: drop the oldest exchange while more than one is left and the
\* estimate exceeds context_window * 0.8
RECURSIVE _trim_to_context_window(_, _)
_trim_to_context_window(exchanges, context_window) ==
    IF Len(exchanges) <= 1 THEN exchanges
    ELSE IF 10 * TokenEstimator_estimate_conversation_tokens(exchanges) <= 8 * context_window
    THEN exchanges
    ELSE _trim_to_context_window(Tail(exchanges), context_window)

\* memai.py 205-217: two messages per exchange, whatever the contents
RECURSIVE MemoryManager_get_context_messages(_)
MemoryManager_get_context_messages(exchanges) ==
    IF exchanges = <<>> THEN <<>>
    ELSE <<[role |-> "user", content |-> Head(exchanges).user],
           [role |-> "assistant", content |-> Head(exchanges).assistant]>>
         \o MemoryManager_get_context_messages(Tail(exchanges))

\* user + assistant, the concatenation of two texts (each ending a word)
Concat(a, b) ==
    [chars |-> a.chars + b.chars, emoji |-> a.emoji + b.emoji,
     symbols |-> a.symbols + b.symbols, nonascii |-> a.nonascii + b.nonascii,
     longw |-> a.longw + b.longw]

\* archive/memai_corrupted.py 330-339: the loop over reversed(exchanges); i is the
\* number of exchanges still to visit
RECURSIVE LoadLoop(_, _, _, _, _)
LoadLoop(exchanges, budget, i, selected, current_tokens) ==
    IF i = 0 THEN selected
    ELSE LET exchange == exchanges[i]
             exchange_tokens ==
                 TokenEstimator_estimate_tokens(Concat(exchange.user, exchange.assistant))
         IN  IF current_tokens + exchange_tokens <= budget
             THEN LoadLoop(exchanges, budget, i - 1, <<exchange>> \o selected,
                           current_tokens + exchange_tokens)
             ELSE selected

\* archive/memai_corrupted.py 321-341: the budget loader of the earlier client
_load_within_budget(exchanges, budget) ==
    IF exchanges = <<>> THEN <<>>
    ELSE LoadLoop(exchanges, budget, Len(exchanges), <<>>, 0)

----------------------------------------------------------------------------
(* model_specific_memory.py ModelSpecificMemory: the store of the bundle *)

\* an argument left at its default None
None == -1

\* model_specific_memory.py 271-287: the exchange add_exchange builds
NewExchange(timestamp, user_content, assistant_content, user_tokens, assistant_tokens) ==
    [timestamp |-> timestamp,
     user |-> [content |-> user_content,
               tokens |-> IF user_tokens = None
                          THEN Max(1, user_content.chars \div 4) ELSE user_tokens],
     assistant |-> [content |-> assistant_content,
                    tokens |-> IF assistant_tokens = None
                               THEN Max(1, assistant_content.chars \div 4)
                               ELSE assistant_tokens]]

\* model_specific_memory.py 297-314: conversation[-max_exchanges:] when a positive
\* max_exchanges is given
ModelSpecificMemory_get_conversation_history(conversation, max_exchanges) ==
    IF max_exchanges # None /\ max_exchanges > 0 THEN LastN(conversation, max_exchanges)
    ELSE conversation

\* unified_memory_manager.py 538-543: the content errors of _validate_exchange
ExchangeIsValid(user_content, assistant_content) ==
    user_content.chars > 0 /\ assistant_content.chars > 0

----------------------------------------------------------------------------
(* SafetyValidator: the budget validation (safety_validator.py) *)

\* safety_validator.py 97-105: the thresholds, in percent
thresholds ==
    [max_context_utilization |-> 95, min_response_allocation |-> 10,
     min_memory_allocation |-> 30, min_safety_margin |-> 2]

\* budgets.get(key, 0)
Get(budgets, key) == IF key \in DOMAIN budgets THEN budgets[key] ELSE 0

\* sum(budgets.values())
SumValues(budgets) == SumOver(DOMAIN budgets, budgets)

\* safety_validator.py 18-24: ValidationResult()
ValidationResult == [is_valid |-> TRUE, errors |-> {}, warnings |-> {}, info |-> {}]

\* a variant in which every warning is counted as an error
validate_token_budgets_WarningsInvalidate(budgets, context_window, complexity_score) ==
    IF DOMAIN budgets = {} \/ context_window <= 0
    THEN [ValidationResult EXCEPT !.is_valid = FALSE, !.errors = {"invalid"}]
    ELSE LET low == 100 * Get(budgets, "response_generation")
                        < thresholds.min_response_allocation * context_window
             over == SumValues(budgets) > context_window
         IN  [ValidationResult EXCEPT
                 !.is_valid = ~over /\ ~low,
                 !.errors = IF over THEN {"exceeds_window"} ELSE {},
                 !.warnings = IF low THEN {"low_response"} ELSE {}]

\* safety_validator.py 107-219: SafetyValidator.validate_token_budgets.  The
\* ratios are compared as fractions; complexity_score is in 10^-4.
validate_token_budgets(budgets, context_window, complexity_score) ==
    IF DOMAIN budgets = {}
    THEN [ValidationResult EXCEPT !.is_valid = FALSE, !.errors = {"invalid_budgets"}]
    ELSE IF context_window <= 0
    THEN [ValidationResult EXCEPT !.is_valid = FALSE,
                                  !.errors = {"invalid_context_window"}]
    ELSE LET total_allocated == SumValues(budgets)
             response_tokens == Get(budgets, "response_generation")
             memory_tokens == Get(budgets, "conversation_memory")
             safety_tokens == Get(budgets, "safety_margin")
             errors == IF total_allocated > context_window
                       THEN {"exceeds_window"} ELSE {}
             warnings ==
                 (IF 100 * total_allocated
                        > thresholds.max_context_utilization * context_window
                  THEN {"high_utilization"} ELSE {})
                 \cup (IF 100 * response_tokens
                             < thresholds.min_response_allocation * context_window
                       THEN {"low_response"} ELSE {})
                 \cup (IF 100 * memory_tokens
                             < thresholds.min_memory_allocation * context_window
                       THEN {"low_memory"} ELSE {})
                 \cup (IF 100 * safety_tokens
                             < thresholds.min_safety_margin * context_window
                       THEN {"low_safety_margin"} ELSE {})
                 \cup (IF complexity_score > 7000
                          /\ 100 * response_tokens < 20 * context_window
                       THEN {"complex_low_response"} ELSE {})
         IN  [is_valid |-> errors = {}, errors |-> errors, warnings |-> warnings,
              info |-> IF errors = {} THEN {"passed"} ELSE {}]

----------------------------------------------------------------------------
(* UnifiedMemoryManager.prepare_context_for_model and the integration layer *)

\* unified_memory_manager.py 88-155: the steps of prepare_context_for_model on the
\* stored history.  failed: a step raises (the division by response_range at
\* adaptive_budget_manager.py 248, or by context_window at 148).
prepare_context_for_model(full_history, user_input, interaction_mode, context_window, minimum_exchanges) ==
    IF DividesByZero(interaction_mode, user_input) \/ context_window = 0
    THEN [failed |-> TRUE]
    ELSE LET budgets == calculate_adaptive_budgets(context_window, interaction_mode,
                                                   user_input, 0)
             memory_budget == budgets.conversation_memory
             conversation_history ==
                 _get_conversation_within_budget(full_history, memory_budget,
                                                 minimum_exchanges)
             context_messages == _build_context_messages(conversation_history)
             actual_memory_tokens ==
                 SimpleTokenCounter_estimate_conversation_tokens(context_messages)
             final_messages ==
                 IF actual_memory_tokens > memory_budget
                 THEN _trim_conversation_to_budget(context_messages, memory_budget)
                 ELSE context_messages
         IN  [failed |-> FALSE,
              budgets |-> budgets,
              conversation_history |-> conversation_history,
              actual_memory_tokens |-> actual_memory_tokens,
              validation |-> validate_token_budgets(budgets, context_window,
                                 analyze_complexity(user_input, interaction_mode)),
              context_messages |-> final_messages]

\* memory_integration.py 212-242: UnifiedMemoryInterface._get_simple_context
_get_simple_context(full_history, context_window) ==
    LET memory_budget == IntDiv(context_window * 8, 10)
    IN  _build_context_messages(_trim_conversation_to_budget(full_history,
                                                             memory_budget))

\* memory_integration.py 56-94: UnifiedMemoryInterface.get_context_messages; the
\* value the caller receives is a list.  user_input = QNone is the default None.
UnifiedMemoryInterface_get_context_messages(full_history, user_input, interaction_mode, context_window) ==
    IF user_input = QNone THEN _get_simple_context(full_history, context_window)
    ELSE LET r == prepare_context_for_model(full_history, user_input,
                                            interaction_mode, context_window, 0)
         IN  IF r.failed THEN <<>> ELSE r.context_messages

\* a variant that lets the exception of prepare_context_for_model pass
prepare_context_with_adaptive_budgets_Raises(available, full_history, user_input, interaction_mode, context_window) ==
    LET r == prepare_context_for_model(full_history, user_input, interaction_mode,
                                       context_window, 0)
    IN  IF r.failed THEN [raised |-> TRUE]
        ELSE [raised |-> FALSE, result |-> r]

\* memory_integration.py 260-295: prepare_context_with_adaptive_budgets.
\* available = FALSE: the global interface could not be created (252).
prepare_context_with_adaptive_budgets(available, full_history, user_input, interaction_mode, context_window) ==
    IF ~available
    THEN [raised |-> FALSE,
          result |-> [context_messages |-> <<>>, error |-> "not available"]]
    ELSE LET r == prepare_context_for_model(full_history, user_input,
                                            interaction_mode, context_window, 0)
         IN  IF r.failed
             THEN [raised |-> FALSE,
                   result |-> [context_messages |-> <<>>, error |-> "MemoryError"]]
             ELSE [raised |-> FALSE, result |-> r]

----------------------------------------------------------------------------
(* Bounds and input sets *)

\* every context window up to this one is tried with every minimum memory 0..window
MaxSmallWindow == 30

\* larger context windows, tried with the minimum memory at a few fractions
LargeWindows == {100, 4096, 32768}

Windows == (1..MaxSmallWindow) \cup LargeWindows

MinimumsFor(w) ==
    IF w <= MaxSmallWindow THEN 0..w
    ELSE {0, w \div 4, w \div 2, (w * 11) \div 20, (w * 3) \div 5, w - 1, w}

Models == {"m1", "m2"}

\* add_exchange is called at most this many times in a run
MaxAppends == 3

\* the largest minimum_exchanges asked of prepare_context_for_model
MaxMinimumExchanges == 2

\* memai.py: the (user_input, ai_response) pairs appended: 3 + 3 and 3 + 10 tokens
CliInputs ==
    {[user |-> Plain(9), assistant |-> Plain(9)],
     [user |-> Plain(9), assistant |-> Plain(30)],
     [user |-> Plain(9), assistant |-> NoText]}

\* memai.py: the context windows detected for the models (80% are 8, 16 and 32 tokens)
CliWindows == {10, 20, 40}

\* bundle: the arguments of add_exchange.  The estimates of the contents are
\* 4 + 4, 4 + 12, 0 + 4 and 0 + 0 tokens; the second call supplies a user token
\* count of 1 where the estimate is 4.
BundleInputs ==
    {[user_content |-> Plain(10), assistant_content |-> Plain(10),
      user_tokens |-> None, assistant_tokens |-> None],
     [user_content |-> Plain(10), assistant_content |-> Plain(30),
      user_tokens |-> 1, assistant_tokens |-> None],
     [user_content |-> NoText, assistant_content |-> Plain(10),
      user_tokens |-> None, assistant_tokens |-> None],
     [user_content |-> NoText, assistant_content |-> NoText,
      user_tokens |-> None, assistant_tokens |-> None]}

\* the arguments of the add_exchange calls that interleave with the clears
ClearInputs ==
    {[user_content |-> Plain(10), assistant_content |-> Plain(30),
      user_tokens |-> 1, assistant_tokens |-> None],
     [user_content |-> NoText, assistant_content |-> Plain(10),
      user_tokens |-> None, assistant_tokens |-> None]}

\* bundle: max_tokens of get_conversation_history
TokenBudgets == {0, 8, 12, 21}

\* bundle: max_exchanges of get_conversation_history
ExchangeLimits == {None, 2}

\* bundle: the context windows of prepare_context_for_model; the memory budgets
\* are 0, 9 and 19 tokens or so
PrepareWindows == {1, 20, 40}

\* bundle: the context windows a caller should not pass
NonPositiveWindows == {0, -1, -100}

PrepareModes == {"chat", "tools"}

\* analyzer: the most "```a``` " blocks and "<p> " tags put in a query
MaxFences == 3

\* analyzer: the queries of analyze_complexity besides Queries: one keyword or all
\* of them, repeated, with code, questions and padding
StuffedQueries ==
    {StuffedQuery(keywords, reps, fences, tags, questions, pad) :
        keywords \in {{"optimize"}, DOMAIN ANALYSIS_KEYWORDS},
        reps \in {0, 1, 2, 100},
        fences \in 0..MaxFences,
        tags \in {0, MaxFences},
        questions \in BOOLEAN,
        pad \in {0, 40, 2000}}

\* validator: the context windows of validate_token_budgets
ValidateWindows == {0, 20, 100}

\* validator: the complexity scores of validate_token_budgets, in 10^-4
ValidateScores == {0, 7000, 7001}

\* validator: the allocations of validate_token_budgets for a window: the empty
\* dictionary, dictionaries of one bucket, and all six buckets with the response,
\* memory and safety shares on both sides of their thresholds
ValidateBudgets(w) ==
    {<<>>}
    \cup {[reserved |-> r] : r \in {0, w, w + 1}}
    \cup {[system_prompt |-> 0, tool_definitions |-> 0, conversation_memory |-> m,
           response_generation |-> r, safety_margin |-> sm, reserved |-> o] :
            m \in {0, (3 * w) \div 10 - 1, (3 * w) \div 10, w \div 2},
            r \in {0, w \div 10 - 1, w \div 10, w \div 5 - 1, w \div 5},
            sm \in {0, 1, 2},
            o \in {0, w \div 2, w}}

\* estimators: the longest text of letters in short words
MaxPlain == 40

\* estimators: the arguments of estimate_tokens: letters in short words, mixes
\* of short words, words over 20 letters (21 and 300 letters), emoji, accented
\* letters and symbols, and arguments that are no str (None or 0, 1, 12345)
EstimateTexts ==
    {Plain(n) : n \in 0..MaxPlain}
    \cup {Mixed(pairs, longwords, extra, emojis, accents, hashes) :
            pairs \in {0, 1, 10}, longwords \in {0, 1, 2}, extra \in {1, 280},
            emojis \in {0, 1, 3}, accents \in {0, 1, 3}, hashes \in {0, 1, 10}}
    \cup {NonText(FALSE, 4), NonText(FALSE, 1), NonText(TRUE, 1), NonText(TRUE, 5)}

----------------------------------------------------------------------------
(* File naming.  A model name is the sequence of its characters; a file    *)
(* name is the sanitised name with the first 8 hex digits of the md5 of    *)
(* the name.                                                               *)

\* str.isalnum() on ASCII characters
Alnum ==
    {"a", "b", "c", "d", "e", "f", "g", "h", "i", "j", "k", "l", "m", "n", "o", "p",
     "q", "r", "s", "t", "u", "v", "w", "x", "y", "z", "0", "1", "2", "3", "4", "5",
     "6", "7", "8", "9"}

\* model names: "m:////::://:::///" and "m/::/:/::///::://"
NameColon == <<"m", ":", "/", "/", "/", "/", ":", ":", ":", "/", "/", ":", ":", ":", "/", "/", "/">>

NameSlash == <<"m", "/", ":", ":", "/", ":", "/", ":", ":", "/", "/", "/", ":", ":", ":", "/", "/">>

\* the model names the stores are called with: "", "unknown", "a:b", "a/b" and
\* the two names above
IsolationModels ==
    {<<>>, <<"u", "n", "k", "n", "o", "w", "n">>, <<"a", ":", "b">>, <<"a", "/", "b">>,
     NameColon, NameSlash}

\* hashlib.md5(model.encode()).hexdigest()[:8] of these names
md5_8(model) ==
    CASE model = <<>> -> "d41d8cd9"
      [] model = <<"u", "n", "k", "n", "o", "w", "n">> -> "ad921d60"
      [] model = <<"a", ":", "b">> -> "d8160c9b"
      [] model = <<"a", "/", "b">> -> "a7e86136"
      [] model = NameColon -> "06bbc256"
      [] model = NameSlash -> "06bbc256"

\* memai.py 123-128: MemoryManager._get_conversation_file
_get_conversation_file(model) ==
    [safe_name |-> [i \in DOMAIN model |->
                        IF model[i] \in {":", "/"} THEN "_" ELSE model[i]],
     model_hash |-> md5_8(model)]

\* model_specific_memory.py 44-75: ModelSpecificMemory._model_to_filename
_model_to_filename(model) ==
    LET named == IF model = <<>> THEN <<"u", "n", "k", "n", "o", "w", "n">> ELSE model
        replaced(c) == IF c \in {":", "/", "\\", "."} THEN "-"
                       ELSE IF c = " " THEN "_" ELSE c
        safe(c) == IF c \in Alnum \/ c \in {"-", "_"} THEN c ELSE "_"
    IN  [safe_name |-> [i \in DOMAIN named |-> safe(replaced(named[i]))],
         model_hash |-> md5_8(named)]

\* add_exchange is called at most this many times in a run on these names
MaxIsolationAppends == 2

\* add_message is called at most this many times in a run
MaxMessages == 3

\* the roles of add_message; "system" stands for every role that is neither
\* "user" nor "assistant"
MessageRoles == {"user", "assistant", "system"}

\* the contents of add_message: 4 tokens, and the empty text
MessageContents == {Plain(10), NoText}

\* the tokens of add_message
MessageTokens == {None, 1}

\* config.get('default_model', 'unknown-model') of these runs
default_model == "m1"

----------------------------------------------------------------------------
(* Persisted files.  A JSON value carries its Python type: a dict and a    *)
(* list have items, a str has a len, an int and null have nothing more.    *)

JInt == [type |-> "int"]

JNull == [type |-> "null"]

JStr(n) == [type |-> "str", len |-> n]

JList(items) == [type |-> "list", items |-> items]

JDict(items) == [type |-> "dict", items |-> items]

\* a key that the dict does not have
Absent == [type |-> "absent"]

\* the dict of the present ones among three values
JDict3(k1, v1, k2, v2, k3, v3) ==
    LET value == (k1 :> v1) @@ (k2 :> v2) @@ (k3 :> v3)
    IN  JDict([k \in {j \in {k1, k2, k3} : value[j] # Absent} |-> value[k]])

\* isinstance(v, dict), isinstance(v, list)
IsDict(v) == v.type = "dict"

IsList(v) == v.type = "list"

\* key in d, for a dict d
Has(d, key) == key \in DOMAIN d.items

\* an exchange as add_exchange has written it, stamped t
StoredExchange(t) ==
    JDict([timestamp |-> JStr(t), user |-> JDict(<<>>), assistant |-> JDict(<<>>)])

\* the longest current_conversation of a persisted file
MaxEntries == 3

\* the lists a file can hold as current_conversation: at each place an exchange
\* stamped with its place, a dict without "assistant", or a number
RECURSIVE PersistedConversations(_)
PersistedConversations(n) ==
    IF n = 0 THEN {<<>>}
    ELSE PersistedConversations(n - 1) \cup
         {Append(c, e) : c \in {d \in PersistedConversations(n - 1) : Len(d) = n - 1},
                         e \in {StoredExchange(n), JDict([user |-> JDict(<<>>)]), JInt}}

\* the metadata a file can hold: none, a number, and dicts with more or fewer
\* of the fields
PersistedMetadata ==
    {Absent, JInt, JDict(<<>>),
     JDict([model |-> JStr(0), version |-> JStr(2)]),
     JDict([model |-> JStr(1), total_exchanges |-> JInt]),
     JDict([model |-> JStr(1), version |-> JStr(3), total_exchanges |-> JInt,
            created_at |-> JStr(26), last_modified |-> JStr(26)])}

\* what a memory file can hold: nothing (no file), bytes that are no UTF-8, text
\* that is no JSON, and JSON values: scalars, a list, and dicts with each of the
\* three keys absent, of a wrong type, or as written
PersistedFiles ==
    {[kind |-> "missing"], [kind |-> "undecodable"], [kind |-> "notjson"]}
    \cup {[kind |-> "json", value |-> v] : v \in {JInt, JNull, JStr(3), JList(<<>>)}}
    \cup {[kind |-> "json",
           value |-> JDict3("metadata", metadata, "current_conversation", conversation,
                            "summarized_conversations", summarized)] :
            metadata \in PersistedMetadata,
            conversation \in {Absent, JInt, JStr(3), JDict(<<>>)}
                             \cup {JList(c) : c \in PersistedConversations(MaxEntries)},
            summarized \in {Absent, JInt, JList(<<>>), JList(<<JDict(<<>>)>>)}}

\* migration: the longest current_conversation of a legacy memory.json
MaxLegacy == 2

\* migration: UnifiedMemoryInterface is constructed at most this many times
MaxMigrations == 2

\* migration: the entries of a legacy conversation: an exchange without
\* metadata (model ""), an exchange whose metadata names the model m2, and a message as
\* memory.py writes it (a role and a content, no "user" and no "assistant")
LegacyEntries ==
    {[kind |-> "exchange", model |-> "", user_content |-> Plain(10),
      user_tokens |-> 3, assistant_content |-> Plain(10), assistant_tokens |-> None],
     [kind |-> "exchange", model |-> "m2", user_content |-> Plain(10),
      user_tokens |-> None, assistant_content |-> Plain(30), assistant_tokens |-> None],
     [kind |-> "message"]}

\* the lists of at most n entries
RECURSIVE LegacyConversations(_)
LegacyConversations(n) ==
    IF n = 0 THEN {<<>>}
    ELSE LegacyConversations(n - 1) \cup
         {Append(c, e) : c \in {d \in LegacyConversations(n - 1) : Len(d) = n - 1},
                         e \in LegacyEntries}

\* migration: what memory.json can hold: nothing (no file), or a current
\* conversation with recent conversations that are lists of entries or, as
\* memory.py writes them, dicts of a date and the messages
LegacyFiles ==
    {[exists |-> FALSE]}
    \cup {[exists |-> TRUE, current_conversation |-> c, recent_conversations |-> r] :
            c \in LegacyConversations(MaxLegacy),
            r \in {<<>>, <<[type |-> "dict", len |-> 2]>>}
                  \cup {<<[type |-> "list", items |-> <<e>>]>> : e \in LegacyEntries}}

\* the budget and the window of the reads that interleave with the appends
SmallBudget == 8

SmallWindow == 20

\* the longest stored conversation the trimming is tried on
MaxHistory == 3

\* the conversations add_exchange can have stored: every sequence of at most n
\* exchanges built from BundleInputs, stamped 1, 2, ... in order
RECURSIVE Conversations(_)
Conversations(n) ==
    IF n = 0 THEN {<<>>}
    ELSE Conversations(n - 1) \cup
         {Append(c, NewExchange(n, in.user_content, in.assistant_content,
                     IF in.user_tokens = None
                     THEN SimpleTokenCounter_estimate_tokens(in.user_content)
                     ELSE in.user_tokens,
                     IF in.assistant_tokens = None
                     THEN SimpleTokenCounter_estimate_tokens(in.assistant_content)
                     ELSE in.assistant_tokens)) :
            c \in {d \in Conversations(n - 1) : Len(d) = n - 1}, in \in BundleInputs}

\* the conversation files the client can have written: every sequence of at most
\* n exchanges built from CliInputs, stamped 1, 2, ... in order
RECURSIVE CliConversations(_)
CliConversations(n) ==
    IF n = 0 THEN {<<>>}
    ELSE CliConversations(n - 1) \cup
         {Append(c, [timestamp |-> n, user |-> in.user, assistant |-> in.assistant]) :
            c \in {d \in CliConversations(n - 1) : Len(d) = n - 1}, in \in CliInputs}

----------------------------------------------------------------------------
(* The allocator as a state machine: one call per step *)

NoBudgets == [b \in Buckets |-> 0]

NoAlloc ==
    [called |-> FALSE, context_window |-> 0, mode |-> "chat", user_input |-> QNone,
     minimum_memory_needed |-> 0, raised |-> FALSE, base |-> NoBudgets,
     budgets |-> NoBudgets]

NoLast == [op |-> "none"]

\* memory_integration.py 109-110: no message is pending
NoPending == <<>>

Init ==
    /\ alloc = NoAlloc
    /\ impl \in {"cli", "bundle"}
    /\ strict \in BOOLEAN
    /\ files = [m \in Models |-> <<>>]
    /\ memory = [m \in Models |-> <<>>]
    /\ appended = [m \in Models |-> <<>>]
    /\ clock = 0
    /\ pending = NoPending
    /\ last = NoLast

\* the arguments of one call, drawn before it is made
InitAlloc ==
    /\ \E w \in Windows, mode \in Modes, q \in Queries :
           \E mm \in MinimumsFor(w) :
               alloc = [NoAlloc EXCEPT !.context_window = w, !.mode = mode,
                                       !.user_input = q, !.minimum_memory_needed = mm]
    /\ impl = "bundle"
    /\ strict = FALSE
    /\ files = [m \in Models |-> <<>>]
    /\ memory = [m \in Models |-> <<>>]
    /\ appended = [m \in Models |-> <<>>]
    /\ clock = 0
    /\ pending = NoPending
    /\ last = NoLast

\* AdaptiveBudgetManager.calculate_adaptive_budgets, adaptive_budget_manager.py 216-283
CalculateAdaptiveBudgets ==
    /\ ~alloc.called
    /\ alloc' = [alloc EXCEPT
                    !.called = TRUE,
                    !.raised = DividesByZero(alloc.mode, alloc.user_input),
                    \* absolute_budgets as converted from the percentages (line 261)
                    !.base =
                        IF DividesByZero(alloc.mode, alloc.user_input) THEN NoBudgets
                        ELSE AbsoluteBudgets(alloc.context_window, alloc.mode,
                                 analyze_complexity(alloc.user_input, alloc.mode)),
                    \* absolute_budgets as returned (line 283)
                    !.budgets =
                        IF DividesByZero(alloc.mode, alloc.user_input) THEN NoBudgets
                        ELSE calculate_adaptive_budgets(alloc.context_window, alloc.mode,
                                 alloc.user_input, alloc.minimum_memory_needed)]
    /\ UNCHANGED <<impl, strict, files, memory, appended, clock, pending, last>>

NextAlloc == CalculateAdaptiveBudgets

SpecAlloc == InitAlloc /\ [][NextAlloc]_vars

----------------------------------------------------------------------------
(* The stores as a state machine.  The programs are single threaded: an    *)
(* operation starts when the caller has taken the result of the one before *)
(* (last.op = "none").                                                     *)

Idle == last.op = "none"

\* the caller takes the result of the last operation
Return ==
    /\ ~Idle
    /\ last' = NoLast
    /\ UNCHANGED <<alloc, impl, strict, files, memory, appended, clock, pending>>

\* memai.py 163-180: MemoryManager.add_exchange.  saved = FALSE is an I/O error of
\* _save_conversation, which leaves the file as it was and raises.
Cli_AddExchange ==
    \E model \in Models, in \in CliInputs, context_window \in CliWindows, saved \in BOOLEAN :
        LET exchange == [timestamp |-> clock + 1, user |-> in.user,
                         assistant |-> in.assistant]
            exchanges == _trim_to_context_window(Append(files[model], exchange),
                                                 context_window)
        IN  /\ impl = "cli"
            /\ Idle
            /\ clock < MaxAppends
            /\ clock' = clock + 1
            /\ files' = IF saved THEN [files EXCEPT ![model] = exchanges] ELSE files
            /\ appended' = IF saved THEN [appended EXCEPT ![model] = Append(@, exchange)]
                           ELSE appended
            /\ last' = [op |-> "add_exchange", model |-> model, exchange |-> exchange,
                        context_window |-> context_window, ok |-> saved]
            /\ UNCHANGED <<alloc, impl, strict, memory, pending>>

\* memai.py 236-240: MemoryManager.clear_conversation unlinks the file
Cli_ClearConversation ==
    \E model \in Models :
        /\ impl = "cli"
        /\ Idle
        /\ files' = [files EXCEPT ![model] = <<>>]
        /\ appended' = [appended EXCEPT ![model] = <<>>]
        /\ last' = [op |-> "clear_conversation", model |-> model, ok |-> TRUE]
        /\ UNCHANGED <<alloc, impl, strict, memory, clock, pending>>

\* memai.py 205-217: MemoryManager.get_context_messages
Cli_GetContextMessages ==
    \E model \in Models :
        /\ impl = "cli"
        /\ Idle
        /\ last' = [op |-> "get_context_messages", model |-> model,
                    conversation_history |-> files[model],
                    context_messages |-> MemoryManager_get_context_messages(files[model])]
        /\ UNCHANGED <<alloc, impl, strict, files, memory, appended, clock, pending>>

\* unified_memory_manager.py 162-213: UnifiedMemoryManager.add_exchange, and
\* model_specific_memory.py 253-295.  saved = FALSE is save_memory returning False.
Bundle_AddExchange ==
    \E model \in Models, in \in BundleInputs, saved \in BOOLEAN :
        LET user_tokens == IF in.user_tokens = None
                           THEN SimpleTokenCounter_estimate_tokens(in.user_content)
                           ELSE in.user_tokens
            assistant_tokens == IF in.assistant_tokens = None
                                THEN SimpleTokenCounter_estimate_tokens(in.assistant_content)
                                ELSE in.assistant_tokens
            rejected == strict /\ ~ExchangeIsValid(in.user_content, in.assistant_content)
            exchange == NewExchange(clock + 1, in.user_content, in.assistant_content,
                                    user_tokens, assistant_tokens)
            success == ~rejected /\ saved
        IN  /\ impl = "bundle"
            /\ Idle
            /\ clock < MaxAppends
            /\ clock' = clock + 1
            /\ memory' = IF success THEN [memory EXCEPT ![model] = Append(@, exchange)]
                         ELSE memory
            /\ appended' = IF success THEN [appended EXCEPT ![model] = Append(@, exchange)]
                           ELSE appended
            /\ last' = [op |-> "add_exchange", model |-> model, exchange |-> exchange,
                        ok |-> success]
            /\ UNCHANGED <<alloc, impl, strict, files, pending>>

\* unified_memory_manager.py 242-260 and model_specific_memory.py 316-348
Bundle_ClearConversation ==
    \E model \in Models, saved \in BOOLEAN :
        /\ impl = "bundle"
        /\ Idle
        /\ memory' = IF saved THEN [memory EXCEPT ![model] = <<>>] ELSE memory
        /\ appended' = IF saved THEN [appended EXCEPT ![model] = <<>>] ELSE appended
        /\ last' = [op |-> "clear_conversation", model |-> model, ok |-> saved]
        /\ UNCHANGED <<alloc, impl, strict, files, clock, pending>>

\* unified_memory_manager.py 215-240: UnifiedMemoryManager.get_conversation_history
Bundle_GetConversationHistory(model, max_exchanges, max_tokens) ==
        LET history == ModelSpecificMemory_get_conversation_history(memory[model],
                                                                    max_exchanges)
        IN  /\ impl = "bundle"
            /\ Idle
            /\ last' = [op |-> "get_conversation_history", model |-> model,
                        max_exchanges |-> max_exchanges, max_tokens |-> max_tokens,
                        loaded |-> history,
                        history |-> IF max_tokens # None
                                    THEN _trim_conversation_to_budget(history, max_tokens)
                                    ELSE history]
            /\ UNCHANGED <<alloc, impl, strict, files, memory, appended, clock, pending>>

\* unified_memory_manager.py 70-160: UnifiedMemoryManager.prepare_context_for_model.
\* An exception of a step is caught at 157-160 and raised again as a MemoryError.
Bundle_PrepareContext(model, interaction_mode, context_window, minimum_exchanges) ==
        \E r \in {prepare_context_for_model(memory[model], QHi, interaction_mode,
                                            context_window, minimum_exchanges)} :
            /\ impl = "bundle"
            /\ Idle
            /\ last' = IF r.failed
                       THEN [op |-> "prepare_context", model |-> model,
                             context_window |-> context_window,
                             minimum_exchanges |-> minimum_exchanges,
                             failed |-> TRUE, raised |-> TRUE]
                       ELSE [op |-> "prepare_context", model |-> model,
                             context_window |-> context_window,
                             minimum_exchanges |-> minimum_exchanges,
                             failed |-> FALSE, raised |-> FALSE,
                             full_history |-> memory[model],
                             budgets |-> r.budgets,
                             conversation_history |-> r.conversation_history,
                             actual_memory_tokens |-> r.actual_memory_tokens,
                             validation |-> r.validation,
                             context_messages |-> r.context_messages]
            /\ UNCHANGED <<alloc, impl, strict, files, memory, appended, clock, pending>>

Next ==
    \/ Cli_AddExchange
    \/ Cli_ClearConversation
    \/ Cli_GetContextMessages
    \/ Bundle_AddExchange
    \/ Bundle_ClearConversation
    \/ \E model \in Models :
           Bundle_GetConversationHistory(model, None, SmallBudget)
    \/ \E model \in Models, minimum_exchanges \in 0..1 :
           Bundle_PrepareContext(model, "chat", SmallWindow, minimum_exchanges)
    \/ Return

Spec == Init /\ [][Next]_vars

----------------------------------------------------------------------------
(* Trimming and composing on their own: a stored conversation is drawn, and *)
(* one read is made of it.                                                  *)

\* archive/memai_corrupted.py 321-341 on the exchanges of a conversation file
Archive_LoadWithinBudget(model, budget) ==
    /\ impl = "cli"
    /\ Idle
    /\ last' = [op |-> "load_within_budget", model |-> model, budget |-> budget,
                loaded |-> files[model],
                history |-> _load_within_budget(files[model], budget)]
    /\ UNCHANGED <<alloc, impl, strict, files, memory, appended, clock, pending>>

\* memory_integration.py 56-94 as called by the chat loop
Integration_GetContextMessages(model, user_input, interaction_mode, context_window) ==
    /\ impl = "bundle"
    /\ Idle
    /\ last' = [op |-> "interface_get_context_messages", model |-> model,
                user_input |-> user_input, context_window |-> context_window,
                failed |-> user_input # QNone
                           /\ (DividesByZero(interaction_mode, user_input)
                               \/ context_window = 0),
                raised |-> FALSE,
                returned |-> UnifiedMemoryInterface_get_context_messages(
                                 memory[model], user_input, interaction_mode,
                                 context_window)]
    /\ UNCHANGED <<alloc, impl, strict, files, memory, appended, clock, pending>>

\* memory_integration.py 260-295 as called by a client of the module
Integration_PrepareContext(available, model, interaction_mode, context_window) ==
    \E r \in {prepare_context_with_adaptive_budgets(available, memory[model], QHi,
                                                     interaction_mode, context_window)} :
        /\ impl = "bundle"
        /\ Idle
        /\ last' = IF r.raised
                   THEN [op |-> "prepare_context_with_adaptive_budgets",
                         model |-> model, context_window |-> context_window,
                         available |-> available,
                         failed |-> TRUE, raised |-> TRUE]
                   ELSE [op |-> "prepare_context_with_adaptive_budgets",
                         model |-> model, context_window |-> context_window,
                         available |-> available,
                         failed |-> ~available
                                    \/ DividesByZero(interaction_mode, QHi)
                                    \/ context_window = 0,
                         raised |-> FALSE,
                         returned |-> r.result]
        /\ UNCHANGED <<alloc, impl, strict, files, memory, appended, clock, pending>>

InitTrim ==
    /\ alloc = NoAlloc
    /\ impl \in {"cli", "bundle"}
    /\ strict = FALSE
    /\ \E c \in IF impl = "cli" THEN CliConversations(MaxHistory)
                 ELSE Conversations(MaxHistory) :
           /\ files = [m \in Models |-> IF m = "m1" /\ impl = "cli" THEN c ELSE <<>>]
           /\ memory = [m \in Models |-> IF m = "m1" /\ impl = "bundle" THEN c ELSE <<>>]
           /\ appended = IF impl = "cli" THEN files ELSE memory
           /\ clock = Len(c)
    /\ pending = NoPending
    /\ last = NoLast

NextTrim ==
    \/ \E max_exchanges \in ExchangeLimits, max_tokens \in TokenBudgets \cup {None} :
           Bundle_GetConversationHistory("m1", max_exchanges, max_tokens)
    \/ \E interaction_mode \in PrepareModes, context_window \in PrepareWindows \cup NonPositiveWindows,
          minimum_exchanges \in 0..MaxMinimumExchanges :
           Bundle_PrepareContext("m1", interaction_mode, context_window, minimum_exchanges)
    \/ \E user_input \in {QNone, QHi}, context_window \in PrepareWindows \cup NonPositiveWindows :
           Integration_GetContextMessages("m1", user_input, "chat", context_window)
    \/ \E available \in BOOLEAN, context_window \in PrepareWindows \cup NonPositiveWindows :
           Integration_PrepareContext(available, "m1", "chat", context_window)
    \/ \E budget \in TokenBudgets : Archive_LoadWithinBudget("m1", budget)
    \/ Cli_GetContextMessages

SpecTrim == InitTrim /\ [][NextTrim]_vars

----------------------------------------------------------------------------
(* The validator on its own: one call of validate_token_budgets *)

\* safety_validator.py 107-219 on a validator constructed with strict_mode = strict
ValidateTokenBudgets ==
    \E context_window \in ValidateWindows, complexity_score \in ValidateScores :
        \E budgets \in ValidateBudgets(context_window) :
            /\ Idle
            /\ \A k \in DOMAIN budgets : budgets[k] >= 0
            /\ last' = [op |-> "validate_token_budgets", budgets |-> budgets,
                        context_window |-> context_window,
                        complexity_score |-> complexity_score,
                        result |-> validate_token_budgets(budgets, context_window,
                                                          complexity_score)]
            /\ UNCHANGED <<alloc, impl, strict, files, memory, appended, clock, pending>>

\* safety_validator.py 86-105: SafetyValidator(strict_mode)
InitValidate ==
    /\ alloc = NoAlloc
    /\ impl = "bundle"
    /\ strict \in BOOLEAN
    /\ files = [m \in Models |-> <<>>]
    /\ memory = [m \in Models |-> <<>>]
    /\ appended = [m \in Models |-> <<>>]
    /\ clock = 0
    /\ pending = NoPending
    /\ last = NoLast

NextValidate == ValidateTokenBudgets

SpecValidate == InitValidate /\ [][NextValidate]_vars

----------------------------------------------------------------------------
(* The analyzer on its own: one call of analyze_complexity *)

\* adaptive_budget_manager.py 99-144, with the keyword sub-score of the call
AnalyzeComplexity ==
    \E user_input \in Queries \cup StuffedQueries, mode \in Modes :
        /\ Idle
        /\ last' = [op |-> "analyze_complexity", user_input |-> user_input,
                    mode |-> mode,
                    keyword_score |-> IF user_input.isStr
                                      THEN _calculate_keyword_complexity(user_input,
                                                                         user_input.len)
                                      ELSE 0,
                    complexity |-> analyze_complexity(user_input, mode)]
        /\ UNCHANGED <<alloc, impl, strict, files, memory, appended, clock, pending>>

InitAnalyze == InitValidate /\ strict = FALSE

NextAnalyze == AnalyzeComplexity

SpecAnalyze == InitAnalyze /\ [][NextAnalyze]_vars

----------------------------------------------------------------------------
(* The estimators on their own: one call of estimate_tokens on each *)

\* token_counter.py 31-76 and memai.py 56-60 on the same argument
EstimateTokens ==
    \E text \in EstimateTexts :
        /\ Idle
        /\ last' = [op |-> "estimate_tokens", text |-> text,
                    bundle |-> SimpleTokenCounter_estimate_tokens(text),
                    cli |-> TokenEstimator_estimate_tokens(text)]
        /\ UNCHANGED <<alloc, impl, strict, files, memory, appended, clock, pending>>

InitEstimate == InitValidate /\ strict = FALSE

NextEstimate == EstimateTokens

SpecEstimate == InitEstimate /\ [][NextEstimate]_vars

----------------------------------------------------------------------------
(* The stores on their files: files and memory map a file name to the      *)
(* conversation it holds, appended maps a model name to the exchanges      *)
(* appended under that name since its last clear.                          *)

\* what _load_conversation(model)["exchanges"] or
\* load_memory(model)["current_conversation"] returns
Stored(model) ==
    IF impl = "cli" THEN files[_get_conversation_file(model)]
    ELSE memory[_model_to_filename(model)]

AllStored == [m \in IsolationModels |-> Stored(m)]

\* memai.py 163-180 and model_specific_memory.py 253-295 (through
\* unified_memory_manager.py 162-213) on the file of the model
Files_AddExchange ==
    \E model \in IsolationModels, context_window \in {10, 40}, saved \in BOOLEAN :
        LET cli_exchange == [timestamp |-> clock + 1, user |-> Plain(9),
                             assistant |-> Plain(9)]
            exchanges == _trim_to_context_window(
                             Append(files[_get_conversation_file(model)], cli_exchange),
                             context_window)
            exchange == NewExchange(clock + 1, Plain(10), Plain(10),
                                    SimpleTokenCounter_estimate_tokens(Plain(10)),
                                    SimpleTokenCounter_estimate_tokens(Plain(10)))
        IN  /\ clock < MaxIsolationAppends
            /\ impl = "bundle" => context_window = 40
            /\ clock' = clock + 1
            /\ files' = IF saved /\ impl = "cli"
                        THEN [files EXCEPT ![_get_conversation_file(model)] = exchanges]
                        ELSE files
            /\ memory' = IF saved /\ impl = "bundle"
                         THEN [memory EXCEPT ![_model_to_filename(model)] =
                                                 Append(@, exchange)]
                         ELSE memory
            /\ appended' = IF saved
                           THEN [appended EXCEPT ![model] =
                                    Append(@, IF impl = "cli" THEN cli_exchange
                                              ELSE exchange)]
                           ELSE appended
            /\ last' = [op |-> "add_exchange", model |-> model, ok |-> saved,
                        before |-> AllStored]
            /\ UNCHANGED <<alloc, impl, strict, pending>>

\* memai.py 236-240 and model_specific_memory.py 316-348 on the file of the model
Files_ClearConversation ==
    \E model \in IsolationModels, saved \in BOOLEAN :
        /\ impl = "cli" => saved
        /\ files' = IF impl = "cli"
                    THEN [files EXCEPT ![_get_conversation_file(model)] = <<>>]
                    ELSE files
        /\ memory' = IF saved /\ impl = "bundle"
                     THEN [memory EXCEPT ![_model_to_filename(model)] = <<>>]
                     ELSE memory
        /\ appended' = IF saved THEN [appended EXCEPT ![model] = <<>>] ELSE appended
        /\ last' = [op |-> "clear_conversation", model |-> model, ok |-> saved,
                    before |-> AllStored]
        /\ UNCHANGED <<alloc, impl, strict, clock, pending>>

\* MemoryManager(memory_dir) and ModelSpecificMemory(base_memory_dir) on an
\* empty directory
InitFiles ==
    /\ alloc = NoAlloc
    /\ impl \in {"cli", "bundle"}
    /\ strict = FALSE
    /\ files = [f \in {_get_conversation_file(m) : m \in IsolationModels} |-> <<>>]
    /\ memory = [f \in {_model_to_filename(m) : m \in IsolationModels} |-> <<>>]
    /\ appended = [m \in IsolationModels |-> <<>>]
    /\ clock = 0
    /\ pending = NoPending
    /\ last = NoLast

NextFiles == Files_AddExchange \/ Files_ClearConversation

SpecFiles == InitFiles /\ [][NextFiles]_vars

----------------------------------------------------------------------------
(* The interface of memory_integration.py: messages arrive one by one and  *)
(* are paired into exchanges.  clock counts the calls of add_message.      *)

\* unified_memory_manager.py 162-213 with model_specific_memory.py 253-295 as an
\* operator on the conversations of the models; saved = FALSE is save_memory
\* returning False
UnifiedMemoryManager_add_exchange(store, model, user_content, assistant_content, user_tokens, assistant_tokens, timestamp, saved) ==
    LET user_count == IF user_tokens = None
                      THEN SimpleTokenCounter_estimate_tokens(user_content)
                      ELSE user_tokens
        assistant_count == IF assistant_tokens = None
                           THEN SimpleTokenCounter_estimate_tokens(assistant_content)
                           ELSE assistant_tokens
        rejected == strict /\ ~ExchangeIsValid(user_content, assistant_content)
        success == ~rejected /\ saved
    IN  [success |-> success,
         store |-> IF success
                   THEN [store EXCEPT ![model] =
                            Append(@, NewExchange(timestamp, user_content,
                                          assistant_content, user_count,
                                          assistant_count))]
                   ELSE store]

\* a variant that stores an assistant message that has no pending user message
add_message_StoresOrphans(pending_exchange, store, role, content, model, tokens, timestamp, saved) ==
    LET message == [content |-> content, tokens |-> tokens]
    IN  IF role = "user"
        THEN [pending |-> ("user" :> message) @@ ("model" :> model) @@ pending_exchange,
              store |-> store, called |-> FALSE, success |-> FALSE]
        ELSE IF role = "assistant"
        THEN LET user_data == IF "user" \in DOMAIN pending_exchange
                              THEN pending_exchange.user
                              ELSE [content |-> NoText, tokens |-> None]
                 r == UnifiedMemoryManager_add_exchange(store,
                          IF "model" \in DOMAIN pending_exchange
                          THEN pending_exchange.model ELSE model,
                          user_data.content, content, user_data.tokens, tokens,
                          timestamp, saved)
             IN  [pending |-> <<>>, store |-> r.store, called |-> TRUE,
                  success |-> r.success]
        ELSE [pending |-> pending_exchange, store |-> store, called |-> FALSE,
              success |-> FALSE]

\* memory_integration.py 96-150: UnifiedMemoryInterface.add_message, with the
\* model already defaulted (107-108).  called: add_exchange was called.
add_message(pending_exchange, store, role, content, model, tokens, timestamp, saved) ==
    LET message == [content |-> content, tokens |-> tokens]
    IN  IF role = "user"
        THEN [pending |-> ("user" :> message) @@ ("model" :> model) @@ pending_exchange,
              store |-> store, called |-> FALSE, success |-> FALSE]
        ELSE IF role = "assistant"
        THEN IF "user" \in DOMAIN pending_exchange
             THEN LET user_data == pending_exchange.user
                      r == UnifiedMemoryManager_add_exchange(store,
                               pending_exchange.model, user_data.content, content,
                               user_data.tokens, tokens, timestamp, saved)
                  IN  [pending |-> <<>>, store |-> r.store, called |-> TRUE,
                       success |-> r.success]
             ELSE [pending |-> ("assistant" :> message) @@ ("model" :> model)
                               @@ pending_exchange,
                   store |-> store, called |-> FALSE, success |-> FALSE]
        ELSE [pending |-> pending_exchange, store |-> store, called |-> FALSE,
              success |-> FALSE]

\* memory_integration.py 96-150; given = FALSE is model = None
Interface_AddMessage ==
    \E role \in MessageRoles, content \in MessageContents, given \in BOOLEAN,
       name \in Models, tokens \in MessageTokens, saved \in BOOLEAN :
        LET model == IF given THEN name ELSE default_model
            r == add_message(pending, memory, role, content, model, tokens,
                             clock + 1, saved)
        IN  /\ clock < MaxMessages
            /\ clock' = clock + 1
            /\ pending' = r.pending
            /\ memory' = r.store
            /\ appended' = IF r.success
                           THEN [m \in Models |->
                                    IF r.store[m] # memory[m]
                                    THEN Append(appended[m],
                                                r.store[m][Len(r.store[m])])
                                    ELSE appended[m]]
                           ELSE appended
            /\ last' = [op |-> "add_message", role |-> role, content |-> content,
                        model |-> model, tokens |-> tokens, pending |-> pending,
                        before |-> memory, called |-> r.called,
                        success |-> r.success]
            /\ UNCHANGED <<alloc, impl, strict, files>>

\* memory_integration.py 159-177: UnifiedMemoryInterface.reset_memory, which
\* leaves the pending message alone
Interface_ResetMemory ==
    \E given \in BOOLEAN, name \in Models, saved \in BOOLEAN :
        LET model == IF given THEN name ELSE default_model
        IN  /\ memory' = IF saved THEN [memory EXCEPT ![model] = <<>>] ELSE memory
            /\ appended' = IF saved THEN [appended EXCEPT ![model] = <<>>]
                           ELSE appended
            /\ last' = [op |-> "reset_memory", model |-> model, pending |-> pending,
                        before |-> memory, success |-> saved]
            /\ UNCHANGED <<alloc, impl, strict, files, clock, pending>>

\* memory_integration.py 25-39: UnifiedMemoryInterface(config) on empty memory
InitMessages == InitValidate

NextMessages == Interface_AddMessage \/ Interface_ResetMemory

SpecMessages == InitMessages /\ [][NextMessages]_vars

----------------------------------------------------------------------------
(* Loading a persisted file (model_specific_memory.py and memai.py) *)

\* model_specific_memory.py 32-42: memory_template["metadata"].copy()
TemplateMetadata ==
    JDict([model |-> JStr(0), created_at |-> JStr(0), last_modified |-> JStr(0),
           version |-> JStr(3), total_exchanges |-> JInt])

\* model_specific_memory.py 219-227: _create_new_memory
_create_new_memory ==
    JDict([metadata |-> JDict([model |-> JStr(1), created_at |-> JStr(26),
                               last_modified |-> JStr(26), version |-> JStr(3),
                               total_exchanges |-> JInt]),
           current_conversation |-> JList(<<>>),
           summarized_conversations |-> JList(<<>>)])

\* d[key] = value
SetItem(d, key, value) == JDict((key :> value) @@ d.items)

\* the entries of a list that are dicts with "user" and "assistant", in order
RECURSIVE ValidExchanges(_)
ValidExchanges(entries) ==
    IF entries = <<>> THEN <<>>
    ELSE LET e == Head(entries)
         IN  (IF IsDict(e) /\ Has(e, "user") /\ Has(e, "assistant") THEN <<e>> ELSE <<>>)
             \o ValidExchanges(Tail(entries))

\* model_specific_memory.py 82-131: _validate_memory_structure for a model with
\* a name of one character.  valid = FALSE: an exception was caught (129-131).
_validate_memory_structure(memory_data) ==
    \* 96-98: "key not in memory_data" or the assignment raises TypeError
    IF ~IsDict(memory_data) THEN [valid |-> FALSE]
    ELSE LET d1 == IF Has(memory_data, "metadata") THEN memory_data
                   ELSE SetItem(memory_data, "metadata", TemplateMetadata)
             d2 == IF Has(d1, "current_conversation") THEN d1
                   ELSE SetItem(d1, "current_conversation", JList(<<>>))
             d3 == IF Has(d2, "summarized_conversations") THEN d2
                   ELSE SetItem(d2, "summarized_conversations", JList(<<>>))
             \* 101-102
             d4 == IF IsDict(d3.items.metadata) THEN d3
                   ELSE SetItem(d3, "metadata", TemplateMetadata)
             conversation == d4.items.current_conversation
         IN  \* 109-110: len() of a number or of None raises TypeError
             IF ~Has(d4.items.metadata, "total_exchanges")
                /\ conversation.type \in {"int", "null"}
             THEN [valid |-> FALSE]
             ELSE [valid |-> TRUE,
                   memory_data |->
                       JDict([metadata |->
                                  \* 105-108 and 125; a model of len 0 is falsy
                                  JDict([total_exchanges |-> JInt, model |-> JStr(1),
                                         version |->
                                             IF Has(d4.items.metadata, "version")
                                             THEN d4.items.metadata.items.version
                                             ELSE JStr(3)]
                                        @@ d4.items.metadata.items),
                              \* 113-124
                              current_conversation |->
                                  IF IsList(conversation)
                                  THEN JList(ValidExchanges(conversation.items))
                                  ELSE JList(<<>>),
                              \* 115-116
                              summarized_conversations |->
                                  IF IsList(d4.items.summarized_conversations)
                                  THEN d4.items.summarized_conversations
                                  ELSE JList(<<>>)])]

\* model_specific_memory.py 133-165 with 229-251: load_memory.  copied = FALSE:
\* shutil.copy2 fails and the failure is only printed (247-248).
load_memory(file, copied) ==
    CASE file.kind = "missing" ->
            [raised |-> FALSE, memory_data |-> _create_new_memory, backup |-> FALSE]
      \* open(..., encoding='utf-8') and json.load raise UnicodeDecodeError, a
      \* ValueError that line 163 does not catch
      [] file.kind = "undecodable" -> [raised |-> TRUE, backup |-> FALSE]
      [] file.kind = "notjson" ->
            [raised |-> FALSE, memory_data |-> _create_new_memory, backup |-> copied]
      [] file.kind = "json" ->
            LET v == _validate_memory_structure(file.value)
            IN  IF v.valid
                THEN [raised |-> FALSE,
                      memory_data |->
                          SetItem(v.memory_data, "metadata",
                                  SetItem(v.memory_data.items.metadata,
                                          "last_accessed", JStr(26))),
                      backup |-> FALSE]
                ELSE [raised |-> FALSE, memory_data |-> _create_new_memory,
                      backup |-> copied]

\* memai.py 130-142: MemoryManager._load_conversation
_load_conversation(file) ==
    LET fresh == JDict([exchanges |-> JList(<<>>),
                        metadata |-> JDict([created |-> JStr(26)])])
    IN  CASE file.kind = "missing" -> [raised |-> FALSE, data |-> fresh]
          [] file.kind = "undecodable" -> [raised |-> TRUE]
          [] file.kind = "notjson" -> [raised |-> FALSE, data |-> fresh]
          [] file.kind = "json" -> [raised |-> FALSE, data |-> file.value]

\* one file is loaded by each store
LoadMemory ==
    \E file \in PersistedFiles, copied \in BOOLEAN :
        /\ Idle
        /\ last' = [op |-> "load_memory", file |-> file, copied |-> copied,
                    bundle |-> load_memory(file, copied),
                    cli |-> _load_conversation(file)]
        /\ UNCHANGED <<alloc, impl, strict, files, memory, appended, clock, pending>>

InitLoad == InitValidate /\ strict = FALSE

NextLoad == LoadMemory

SpecLoad == InitLoad /\ [][NextLoad]_vars

----------------------------------------------------------------------------
(* Saving with I/O failures.  A directory holds the store file of the      *)
(* model and a number of temporary files; fault names the step of the save *)
(* at which the operating system refuses.                                  *)

\* the steps of a save that can fail: creating the temporary file, writing the
\* JSON into it, and moving it over the store file
SaveFaults == {"none", "create", "dump", "move"}

\* model_specific_memory.py 167-217: ModelSpecificMemory.save_memory on a valid
\* structure.  temp_path is assigned after json.dump (200), so that the cleanup
\* at 211-213 finds it only when shutil.move has failed.
save_memory(store, memory_data, fault) ==
    CASE fault = "none" ->
            [returned |-> TRUE, raised |-> FALSE, store |-> memory_data, temp_files |-> 0]
      [] fault = "create" ->
            [returned |-> FALSE, raised |-> FALSE, store |-> store, temp_files |-> 0]
      [] fault = "dump" ->
            [returned |-> FALSE, raised |-> FALSE, store |-> store, temp_files |-> 1]
      [] fault = "move" ->
            [returned |-> FALSE, raised |-> FALSE, store |-> store, temp_files |-> 0]

\* memai.py 144-161: MemoryManager._save_conversation unlinks the temporary file
\* and raises the exception again
_save_conversation(store, data, fault) ==
    IF fault = "none"
    THEN [returned |-> TRUE, raised |-> FALSE, store |-> data, temp_files |-> 0]
    ELSE [returned |-> FALSE, raised |-> TRUE, store |-> store, temp_files |-> 0]

\* model_specific_memory.py 253-295 (through unified_memory_manager.py 162-213)
\* and memai.py 163-180: add_exchange on the stored conversation of "m1"
Save_AddExchange ==
    \E fault \in SaveFaults, context_window \in CliWindows :
        LET cli_exchange == [timestamp |-> clock + 1, user |-> Plain(9),
                             assistant |-> Plain(9)]
            exchange == NewExchange(clock + 1, Plain(10), Plain(10),
                                    SimpleTokenCounter_estimate_tokens(Plain(10)),
                                    SimpleTokenCounter_estimate_tokens(Plain(10)))
        IN  \E r \in {IF impl = "cli"
                      THEN _save_conversation(files["m1"],
                               _trim_to_context_window(Append(files["m1"], cli_exchange),
                                                       context_window), fault)
                      ELSE save_memory(memory["m1"], Append(memory["m1"], exchange),
                                       fault)} :
                /\ Idle
                /\ impl = "bundle" => context_window = 40
                /\ clock' = clock + 1
                /\ files' = IF impl = "cli" THEN [files EXCEPT !["m1"] = r.store]
                            ELSE files
                /\ memory' = IF impl = "bundle" THEN [memory EXCEPT !["m1"] = r.store]
                             ELSE memory
                /\ appended' = IF r.returned
                               THEN [appended EXCEPT !["m1"] =
                                        Append(@, IF impl = "cli" THEN cli_exchange
                                                  ELSE exchange)]
                               ELSE appended
                /\ last' = [op |-> "save", fault |-> fault, returned |-> r.returned,
                            raised |-> r.raised, temp_files |-> r.temp_files,
                            before |-> IF impl = "cli" THEN files["m1"]
                                       ELSE memory["m1"]]
                /\ UNCHANGED <<alloc, impl, strict, pending>>

InitSave == InitTrim

NextSave == Save_AddExchange

SpecSave == InitSave /\ [][NextSave]_vars

----------------------------------------------------------------------------
(* Clearing: the whole record of the per-model store.  In this             *)
(* specification memory[model] is the dict that load_memory returns and    *)
(* save_memory writes, with its metadata and its summaries; the times are   *)
(* readings of the clock.                                                   *)

\* model_specific_memory.py 152-154: no file at memory_path
NoFile == [exists |-> FALSE]

\* model_specific_memory.py 219-227 with the template of 32-42: _create_new_memory
\* for a model, at a time
NewMemory(model, now) ==
    [exists |-> TRUE,
     metadata |-> [model |-> model, created_at |-> now, last_modified |-> now,
                   version |-> "3.0", total_exchanges |-> 0],
     current_conversation |-> <<>>,
     summarized_conversations |-> <<>>]

\* model_specific_memory.py 133-165: load_memory of a file save_memory has
\* written, or of none
LoadStored(file, model, now) ==
    IF file.exists THEN file ELSE NewMemory(model, now)

\* model_specific_memory.py 184-187: the metadata that save_memory writes
UpdateMetadata(memory_data, model, now) ==
    [memory_data EXCEPT !.metadata.model = model,
                        !.metadata.last_modified = now,
                        !.metadata.total_exchanges = Len(memory_data.current_conversation)]

\* a variant that files a summary of an empty conversation too
ClearedMemory_AlwaysSummarizes(memory_data, now) ==
    [memory_data EXCEPT
        !.summarized_conversations =
            Append(@, [summarized_at |-> now,
                       exchange_count |-> Len(memory_data.current_conversation)]),
        !.current_conversation = <<>>]

\* model_specific_memory.py 327-343: the record clear_conversation hands to
\* save_memory
ClearedMemory(memory_data, now) ==
    LET conversation == memory_data.current_conversation
    IN  [memory_data EXCEPT
            !.summarized_conversations =
                IF conversation # <<>>
                THEN Append(@, [summarized_at |-> now,
                                exchange_count |-> Len(conversation),
                                date_range |->
                                    [start |-> conversation[1].timestamp,
                                     end |-> conversation[Len(conversation)].timestamp]])
                ELSE @,
            !.current_conversation = <<>>]

\* the exchanges that get_conversation_history reads from a store
StoredConversation(model) ==
    IF impl = "cli" THEN files[model]
    ELSE LoadStored(memory[model], model, clock).current_conversation

\* model_specific_memory.py 253-295 and memai.py 163-180: add_exchange.
\* saved = FALSE: the write fails and the store is as it was.
Clear_AddExchange ==
    \E model \in Models, in \in ClearInputs, saved \in BOOLEAN,
       context_window \in IF impl = "cli" THEN CliWindows ELSE {None} :
        LET now == clock + 1
            user_tokens == IF in.user_tokens = None
                           THEN SimpleTokenCounter_estimate_tokens(in.user_content)
                           ELSE in.user_tokens
            assistant_tokens == IF in.assistant_tokens = None
                                THEN SimpleTokenCounter_estimate_tokens(in.assistant_content)
                                ELSE in.assistant_tokens
            exchange == IF impl = "cli"
                        THEN [timestamp |-> now, user |-> in.user_content,
                              assistant |-> in.assistant_content]
                        ELSE NewExchange(now, in.user_content, in.assistant_content,
                                         user_tokens, assistant_tokens)
            loaded == LoadStored(memory[model], model, now)
        IN  /\ clock < MaxAppends
            /\ clock' = now
            /\ files' = IF impl = "cli" /\ saved
                        THEN [files EXCEPT ![model] =
                                 _trim_to_context_window(Append(@, exchange), context_window)]
                        ELSE files
            /\ memory' = IF impl = "bundle" /\ saved
                         THEN [memory EXCEPT ![model] =
                                  UpdateMetadata(
                                      [loaded EXCEPT !.current_conversation = Append(@, exchange)],
                                      model, now)]
                         ELSE memory
            /\ appended' = IF saved THEN [appended EXCEPT ![model] = Append(@, exchange)]
                           ELSE appended
            /\ last' = [op |-> "add_exchange", model |-> model, exchange |-> exchange,
                        ok |-> saved, before |-> loaded]
            /\ UNCHANGED <<alloc, impl, strict, pending>>

\* model_specific_memory.py 316-348 and memai.py 236-240: clear_conversation.
\* saved = FALSE: save_memory returns False (the file of memai.py is unlinked
\* whenever it exists).
Clear_ClearConversation ==
    \E model \in Models, saved \in BOOLEAN :
        LET loaded == LoadStored(memory[model], model, clock)
            ok == impl = "cli" \/ saved
        IN  /\ files' = IF impl = "cli" THEN [files EXCEPT ![model] = <<>>] ELSE files
            /\ memory' = IF impl = "bundle" /\ saved
                         THEN [memory EXCEPT ![model] =
                                  UpdateMetadata(ClearedMemory(loaded, clock), model, clock)]
                         ELSE memory
            /\ appended' = IF ok THEN [appended EXCEPT ![model] = <<>>] ELSE appended
            /\ last' = [op |-> "clear_conversation", model |-> model, ok |-> ok,
                        before |-> loaded]
            /\ UNCHANGED <<alloc, impl, strict, clock, pending>>

InitClear ==
    /\ alloc = NoAlloc
    /\ impl \in {"cli", "bundle"}
    /\ strict = FALSE
    /\ files = [m \in Models |-> <<>>]
    /\ memory = [m \in Models |-> NoFile]
    /\ appended = [m \in Models |-> <<>>]
    /\ clock = 0
    /\ pending = NoPending
    /\ last = NoLast

NextClear == Clear_AddExchange \/ Clear_ClearConversation

SpecClear == InitClear /\ [][NextClear]_vars

----------------------------------------------------------------------------
(* The background save of memory.py.  save_memory_async starts a thread     *)
(* that runs save_memory while the main thread goes on; add_message saves   *)
(* synchronously.  Both write memory.json.tmp and rename it over            *)
(* memory.json, and no lock is taken.  In this specification                *)
(*   memory["m1"]  is self.current_conversation,                            *)
(*   files         is the directory: the inode behind each of the two       *)
(*                 paths (0: no such file), the contents of the inodes as   *)
(*                 sequences of chunks, and the backup copy,                *)
(*   pending       is the position of each thread inside save_memory.       *)

Threads == {"main", "async"}

\* the inodes of the directory: two paths and one open descriptor of the other
\* thread can be in use when a file is created
Inodes == {1, 2, 3}

\* the chunk that json.dump writes at place i of a conversation of n messages
Chunk(n, i) == [n |-> n, i |-> i]

\* the bytes that a write beyond the end of a truncated file leaves before it
Hole == [n |-> -1, i |-> 0]

\* memory.py 74-79 and 88-89: the text of data for a conversation of n
\* messages, one chunk for the head and one for each message
Snapshot(n) == [i \in 1..(n + 1) |-> Chunk(n, i)]

\* write(2) of one chunk at an offset of the descriptor
WriteAt(content, offset, chunk) ==
    [k \in 1..Max(Len(content), offset + 1) |->
        IF k = offset + 1 THEN chunk
        ELSE IF k <= Len(content) THEN content[k]
        ELSE Hole]

\* a thread that is not inside save_memory
NotSaving == [pc |-> "idle", n |-> 0, fd |-> 0, offset |-> 0]

\* the inodes that a path or an open descriptor refers to
InUse(dir, threads) ==
    ({dir.store, dir.tmp} \cup {threads[t].fd : t \in Threads}) \ {0}

\* the contents of an inode that nothing refers to are gone
Reclaim(dir, threads) ==
    [dir EXCEPT !.inodes = [i \in Inodes |->
                               IF i \in InUse(dir, threads) THEN dir.inodes[i] ELSE <<>>]]

\* memory.py 137-177: _add_message_with_exceptions appends the message and
\* enters save_memory on the main thread
Async_AddMessage ==
    /\ pending["main"].pc = "idle"
    /\ clock < MaxAppends
    /\ clock' = clock + 1
    /\ memory' = [memory EXCEPT !["m1"] =
                     Append(@, [role |-> "user", timestamp |-> clock + 1])]
    /\ pending' = [pending EXCEPT !["main"].pc = "backup"]
    /\ last' = [op |-> "add_message", thread |-> "main", failed |-> FALSE]
    /\ UNCHANGED <<alloc, impl, strict, files, appended>>

\* memory.py 116-126: save_memory_async starts the thread and returns
Async_SaveMemoryAsync ==
    /\ pending["main"].pc = "idle"
    /\ pending["async"].pc = "idle"
    /\ pending' = [pending EXCEPT !["async"].pc = "backup"]
    /\ last' = [op |-> "save_memory_async", thread |-> "main", failed |-> FALSE]
    /\ UNCHANGED <<alloc, impl, strict, files, memory, appended, clock>>

\* memory.py 73-84: data is built and the file that exists is copied to the backup
Async_Backup(t) ==
    /\ pending[t].pc = "backup"
    /\ files' = IF files.store # 0
                THEN [files EXCEPT !.backup = files.inodes[files.store]]
                ELSE files
    /\ pending' = [pending EXCEPT ![t].pc = "open"]
    /\ last' = [op |-> "backup", thread |-> t, failed |-> FALSE]
    /\ UNCHANGED <<alloc, impl, strict, memory, appended, clock>>

\* memory.py 87-88: open(temp_file, 'w') truncates the file of that name or
\* creates it; json.dump starts on the conversation as it is now
Async_Open(t) ==
    \E inode \in IF files.tmp # 0 THEN {files.tmp}
                 ELSE {i \in Inodes : i \notin InUse(files, pending)
                                      /\ \A j \in Inodes : j < i => j \in InUse(files, pending)} :
        /\ pending[t].pc = "open"
        /\ files' = [files EXCEPT !.tmp = inode, !.inodes[inode] = <<>>]
        /\ pending' = [pending EXCEPT ![t] = [pc |-> "dump", n |-> Len(memory["m1"]),
                                              fd |-> inode, offset |-> 0]]
        /\ last' = [op |-> "open", thread |-> t, failed |-> FALSE]
        /\ UNCHANGED <<alloc, impl, strict, memory, appended, clock>>

\* memory.py 88-89: one chunk of json.dump reaches the file; after the last one
\* the descriptor is closed
Async_Write(t) ==
    LET p == pending[t]
        closed == p.offset + 1 = p.n + 1
        threads == [pending EXCEPT ![t] = IF closed THEN [p EXCEPT !.pc = "replace", !.fd = 0]
                                          ELSE [p EXCEPT !.offset = @ + 1]]
    IN  /\ p.pc = "dump"
        /\ files' = Reclaim([files EXCEPT !.inodes[p.fd] =
                                WriteAt(@, p.offset, Chunk(p.n, p.offset + 1))],
                            threads)
        /\ pending' = threads
        /\ last' = [op |-> "write", thread |-> t, failed |-> FALSE]
        /\ UNCHANGED <<alloc, impl, strict, memory, appended, clock>>

\* memory.py 91-95 and 97-114: os.replace (os.rename) of the temporary file over
\* the store; without a temporary file it raises FileNotFoundError, which
\* save_memory prints
Async_Replace(t) ==
    LET threads == [pending EXCEPT ![t] = NotSaving]
    IN  /\ pending[t].pc = "replace"
        /\ files' = IF files.tmp # 0
                    THEN Reclaim([files EXCEPT !.store = files.tmp, !.tmp = 0], threads)
                    ELSE files
        /\ pending' = threads
        /\ last' = [op |-> "replace", thread |-> t, failed |-> files.tmp = 0]
        /\ UNCHANGED <<alloc, impl, strict, memory, appended, clock>>

\* the directory is empty or holds the file of an earlier run
InitAsync ==
    /\ alloc = NoAlloc
    /\ impl = "bundle"
    /\ strict = FALSE
    /\ files \in {[store |-> 0, tmp |-> 0, backup |-> <<>>,
                   inodes |-> [i \in Inodes |-> <<>>]],
                  [store |-> 1, tmp |-> 0, backup |-> <<>>,
                   inodes |-> [i \in Inodes |-> IF i = 1 THEN Snapshot(0) ELSE <<>>]]}
    /\ memory = [m \in Models |-> <<>>]
    /\ appended = [m \in Models |-> <<>>]
    /\ clock = 0
    /\ pending = [t \in Threads |-> NotSaving]
    /\ last = NoLast

NextAsync ==
    \/ Async_AddMessage
    \/ Async_SaveMemoryAsync
    \/ \E t \in Threads : Async_Backup(t)
    \/ \E t \in Threads : Async_Open(t)
    \/ \E t \in Threads : Async_Write(t)
    \/ \E t \in Threads : Async_Replace(t)

SpecAsync == InitAsync /\ [][NextAsync]_vars

----------------------------------------------------------------------------
(* Migration of the legacy memory.json (unified_memory_manager.py 262-358). *)
(* In this specification files is the legacy file and memory[model] the     *)
(* current_conversation of the per-model store.                             *)

\* unified_memory_manager.py 564-573: _extract_model_from_exchange
_extract_model_from_exchange(exchange, model) ==
    IF exchange.kind = "exchange" /\ exchange.model # "" THEN exchange.model ELSE model

\* unified_memory_manager.py 297-334: the entries that the two loops pass to
\* add_exchange, in order
ToMigrate(legacy_data) ==
    LET RECURSIVE Flatten(_)
        Flatten(conversations) ==
            IF conversations = <<>> THEN <<>>
            ELSE (IF Head(conversations).type = "list" THEN Head(conversations).items
                  ELSE <<>>)
                 \o Flatten(Tail(conversations))
    IN  SelectSeq(legacy_data.current_conversation
                  \o Flatten(legacy_data.recent_conversations),
                  LAMBDA e : e.kind = "exchange")

\* unified_memory_manager.py 297-334 with model_specific_memory.py 253-295: each
\* entry is appended to the store of its model
AddAll(stores, entries, now) ==
    LET RECURSIVE Add(_, _)
        Add(s, es) ==
            IF es = <<>> THEN s
            ELSE LET e == Head(es)
                     model == _extract_model_from_exchange(e, default_model)
                 IN  Add([s EXCEPT ![model] =
                             Append(@, NewExchange(now, e.user_content,
                                                   e.assistant_content,
                                                   e.user_tokens, e.assistant_tokens))],
                         Tail(es))
    IN  Add(stores, entries)

\* safety_validator.py 445-504: validate_migration_integrity, is_valid.  The
\* entries of the legacy file are counted, and against them the exchanges of
\* the stores handed over.
validate_migration_integrity(old_data, new_data_by_model) ==
    LET original_count ==
            Len(old_data.current_conversation)
            + SumOver(DOMAIN old_data.recent_conversations,
                      [k \in DOMAIN old_data.recent_conversations |->
                          IF old_data.recent_conversations[k].type = "list"
                          THEN Len(old_data.recent_conversations[k].items)
                          ELSE old_data.recent_conversations[k].len])
        migrated_count ==
            SumOver(DOMAIN new_data_by_model,
                    [m \in DOMAIN new_data_by_model |-> Len(new_data_by_model[m])])
    IN  migrated_count = original_count /\ DOMAIN new_data_by_model # {}

\* unified_memory_manager.py 262-358: migrate_legacy_memory, the stores it leaves
\* and the value it returns
migrate_legacy_memory(legacy, stores, now) ==
    IF ~legacy.exists THEN [returned |-> TRUE, stores |-> stores]
    ELSE IF legacy.current_conversation = <<>> /\ legacy.recent_conversations = <<>>
    THEN [returned |-> TRUE, stores |-> stores]
    ELSE LET migrated == AddAll(stores, ToMigrate(legacy), now)
         IN  [returned |->
                  validate_migration_integrity(
                      legacy, [m \in {default_model} |-> migrated[m]]),
              stores |-> migrated]

\* memory_integration.py 20-54: UnifiedMemoryInterface(config), whose
\* _ensure_migration runs migrate_legacy_memory
Migrate_Construct ==
    \E r \in {migrate_legacy_memory(files, memory, clock + 1)} :
        /\ clock < MaxMigrations
        /\ clock' = clock + 1
        /\ memory' = r.stores
        /\ last' = [op |-> "migrate_legacy_memory", run |-> clock + 1,
                    returned |-> r.returned, before |-> memory,
                    previous |-> IF clock = 0 THEN FALSE ELSE last.returned]
        /\ UNCHANGED <<alloc, impl, strict, files, appended, pending>>

InitMigrate ==
    /\ alloc = NoAlloc
    /\ impl = "bundle"
    /\ strict = FALSE
    /\ files \in LegacyFiles
    /\ memory = [m \in Models |-> <<>>]
    /\ appended = [m \in Models |-> <<>>]
    /\ clock = 0
    /\ pending = NoPending
    /\ last = NoLast

NextMigrate == Migrate_Construct

SpecMigrate == InitMigrate /\ [][NextMigrate]_vars

----------------------------------------------------------------------------
(* Claims about the allocator, under SpecAlloc *)

AllocReturned == alloc.called /\ ~alloc.raised

\* C1: for every positive context window, mode, query and minimum memory
\* between 0 and the window, the six buckets returned by the allocator sum
\* to at most the context window.
C1_TotalWithinWindow ==
    (AllocReturned /\ alloc.context_window > 0
       /\ alloc.minimum_memory_needed \in 0..alloc.context_window)
    => TotalAllocated(alloc.budgets) <= alloc.context_window

\* C2 as stated: for any minimum memory <= context window the returned
\* conversation_memory equals the minimum memory, reserved >= 0 and
\* response_generation >= floor(0.10 * window).
C2_MemoryEqualsMinimum ==
    (AllocReturned /\ alloc.minimum_memory_needed <= alloc.context_window)
    => /\ alloc.budgets.conversation_memory = alloc.minimum_memory_needed
       /\ alloc.budgets.reserved >= 0
       /\ alloc.budgets.response_generation >= alloc.context_window \div 10

\* C2 amended: for any minimum memory <= context window the returned
\* conversation_memory is the larger of the minimum memory and the adaptive
\* memory share (so it equals the minimum whenever the minimum exceeds that
\* share), reserved >= 0 and response_generation >= floor(0.10 * window).
C2_MemoryAtLeastMinimum ==
    (AllocReturned /\ alloc.minimum_memory_needed <= alloc.context_window)
    => /\ alloc.budgets.conversation_memory
              = Max(alloc.minimum_memory_needed, alloc.base.conversation_memory)
       /\ alloc.budgets.reserved >= 0
       /\ alloc.budgets.response_generation >= alloc.context_window \div 10

\* the override fired and had to take tokens from the response bucket
C2_Witness ==
    /\ AllocReturned
    /\ alloc.minimum_memory_needed <= alloc.context_window
    /\ alloc.minimum_memory_needed > alloc.base.conversation_memory + alloc.base.reserved
    /\ alloc.budgets.response_generation < alloc.base.response_generation
    /\ alloc.budgets.conversation_memory = alloc.minimum_memory_needed

----------------------------------------------------------------------------
(* Claims about trimming to a token budget, under SpecTrim *)

IsSuffix(s, t) ==
    /\ Len(s) <= Len(t)
    /\ s = SubSeq(t, Len(t) - Len(s) + 1, Len(t))

RECURSIVE SumSeq(_)
SumSeq(counts) == IF counts = <<>> THEN 0 ELSE Head(counts) + SumSeq(Tail(counts))

\* the token counts an exchange of the bundle carries
StoredCount(exchange) == exchange.user.tokens + exchange.assistant.tokens

\* the estimates of the contents of an exchange of the bundle
EstimatedCount(exchange) ==
    SimpleTokenCounter_estimate_tokens(exchange.user.content)
    + SimpleTokenCounter_estimate_tokens(exchange.assistant.content)

StoredCounts(conversation) ==
    [i \in 1..Len(conversation) |-> StoredCount(conversation[i])]

EstimatedCounts(conversation) ==
    [i \in 1..Len(conversation) |-> EstimatedCount(conversation[i])]

\* the count the archived loader gives an exchange
ConcatCounts(exchanges) ==
    [i \in 1..Len(exchanges) |->
        TokenEstimator_estimate_tokens(Concat(exchanges[i].user, exchanges[i].assistant))]

\* the longest suffix of seq whose counts add up to budget at most
LongestSuffixWithin(seq, counts, budget) ==
    LET n == Len(seq)
        fits(k) == SumSeq(SubSeq(counts, n - k + 1, n)) <= budget
        k == CHOOSE j \in 0..n :
                 /\ j = 0 \/ fits(j)
                 /\ \A l \in (j + 1)..n : ~fits(l)
    IN  SubSeq(seq, n - k + 1, n)

\* get_conversation_history has trimmed the loaded history to max_tokens
Trimmed == last.op = "get_conversation_history" /\ last.max_tokens # None

\* C3 as stated: the estimates of the contents of the exchanges the trimmer
\* returns add up to the budget at most, whatever token counts they carry
C3_EstimatesWithinBudget ==
    Trimmed => SumSeq(EstimatedCounts(last.history)) <= last.max_tokens

\* C3: the token counts the trimmer reads (the stored count of each exchange) add
\* up to the budget at most; so do the estimates of the contents when no returned
\* exchange carries a count below its estimate
C3_CountsWithinBudget ==
    Trimmed =>
        /\ SumSeq(StoredCounts(last.history)) <= last.max_tokens
        /\ (\A i \in 1..Len(last.history) :
                StoredCount(last.history[i]) >= EstimatedCount(last.history[i]))
            => SumSeq(EstimatedCounts(last.history)) <= last.max_tokens

C3_Witness ==
    /\ Trimmed
    /\ last.history # <<>>
    /\ Len(last.history) < Len(last.loaded)
    /\ \E i \in 1..Len(last.history) :
           StoredCount(last.history[i]) # EstimatedCount(last.history[i])

\* C4 as stated: with a non-empty list and a positive budget the result ends with
\* the most recent exchange
C4_NewestAlwaysKept ==
    (Trimmed /\ last.loaded # <<>> /\ last.max_tokens > 0)
    => /\ last.history # <<>>
       /\ last.history[Len(last.history)] = last.loaded[Len(last.loaded)]

\* C4: with a non-empty list and a budget that the count of the most recent
\* exchange does not exceed, the result ends with the most recent exchange; when
\* that count exceeds the budget the result is empty
C4_NewestKeptWhenItFits ==
    (Trimmed /\ last.loaded # <<>> /\ last.max_tokens > 0)
    => IF StoredCount(last.loaded[Len(last.loaded)]) <= last.max_tokens
       THEN /\ last.history # <<>>
            /\ last.history[Len(last.history)] = last.loaded[Len(last.loaded)]
       ELSE last.history = <<>>

C4_Witness ==
    /\ Trimmed
    /\ Len(last.loaded) >= 2
    /\ last.max_tokens > 0
    /\ Len(last.history) = 1
    /\ last.history[1] = last.loaded[Len(last.loaded)]

\* C5 as stated: the result is the longest suffix of the input whose token counts
\* add up to the budget at most, for every budget
C5_LongestSuffix ==
    /\ Trimmed => last.history = LongestSuffixWithin(last.loaded,
                                      StoredCounts(last.loaded), last.max_tokens)
    /\ last.op = "load_within_budget"
       => last.history = LongestSuffixWithin(last.loaded,
                              ConcatCounts(last.loaded), last.budget)

\* C5: for a positive budget the result is the longest suffix of the input whose
\* token counts add up to the budget at most, in the order of the input; for a
\* budget of zero the trimmer of the bundle returns the empty list
C5_LongestSuffixPositiveBudget ==
    /\ Trimmed
       => last.history = IF last.max_tokens > 0
                         THEN LongestSuffixWithin(last.loaded,
                                  StoredCounts(last.loaded), last.max_tokens)
                         ELSE <<>>
    /\ last.op = "load_within_budget"
       => last.history = LongestSuffixWithin(last.loaded,
                              ConcatCounts(last.loaded), last.budget)

C5_Witness ==
    /\ Trimmed
    /\ Len(last.loaded) = 3
    /\ Len(last.history) = 2
    /\ last.history = SubSeq(last.loaded, 2, 3)
    /\ SumSeq(StoredCounts(last.history)) < last.max_tokens
    /\ SumSeq(StoredCounts(last.loaded)) > last.max_tokens

----------------------------------------------------------------------------
(* Claims about the stores, under Spec *)

\* the client's add_exchange has returned for last.model
CliAdded == impl = "cli" /\ last.op = "add_exchange" /\ last.ok

\* C6: after add_exchange of the client the conversation file is non-empty, ends
\* with the exchange just appended, and holds one exchange or an estimated total
\* of 0.8 * context_window at most
C6_TrimToWindow ==
    CliAdded =>
        LET exchanges == files[last.model]
        IN  /\ exchanges # <<>>
            /\ exchanges[Len(exchanges)] = last.exchange
            /\ \/ Len(exchanges) = 1
               \/ 10 * TokenEstimator_estimate_conversation_tokens(exchanges)
                      <= 8 * last.context_window

\* an append that trimmed the file to two exchanges, and one that left a single
\* exchange above the limit
C6_Witness ==
    /\ CliAdded
    /\ \/ /\ Len(files[last.model]) = 2
          /\ Len(appended[last.model]) = 3
       \/ /\ Len(files[last.model]) = 1
          /\ Len(appended[last.model]) = 3
          /\ 10 * TokenEstimator_estimate_conversation_tokens(files[last.model])
                 > 8 * last.context_window

\* C7: the stored conversation of every model is a contiguous suffix of the
\* exchanges appended to it since it was last cleared, in the order of the appends
C7_StoredIsSuffixOfAppended ==
    \A m \in Models :
        /\ IsSuffix(files[m], appended[m])
        /\ IsSuffix(memory[m], appended[m])

\* a read of a file that was trimmed after a clear and still holds two exchanges
C7_Witness ==
    /\ last.op = "get_context_messages"
    /\ Len(files[last.model]) = 2
    /\ Len(appended[last.model]) = 3
    /\ files[last.model][1].timestamp = 2

----------------------------------------------------------------------------
(* Claims about prepare_context_for_model, under SpecTrim *)

Prepared == last.op = "prepare_context" /\ ~last.raised

\* C8 as stated: without a floor of exchanges the estimate of the emitted
\* messages is the memory budget at most
C8_EmittedWithinBudget ==
    (Prepared /\ last.minimum_exchanges = 0)
    => SimpleTokenCounter_estimate_conversation_tokens(last.context_messages)
           <= last.budgets.conversation_memory

RECURSIVE Alternates(_)
Alternates(messages) ==
    \/ messages = <<>>
    \/ /\ Len(messages) >= 2
       /\ messages[1].role = "user"
       /\ messages[2].role = "assistant"
       /\ Alternates(SubSeq(messages, 3, Len(messages)))

\* the contents of the exchanges, user then assistant, in order
RECURSIVE ContentsOf(_)
ContentsOf(conversation_history) ==
    IF conversation_history = <<>> THEN <<>>
    ELSE LET exchange == Head(conversation_history)
         IN  <<IF "content" \in DOMAIN exchange.user
               THEN exchange.user.content ELSE exchange.user,
               IF "content" \in DOMAIN exchange.assistant
               THEN exchange.assistant.content ELSE exchange.assistant>>
             \o ContentsOf(Tail(conversation_history))

Composed == Prepared \/ last.op = "get_context_messages"

\* C9 as stated: the emitted messages are the contents of the selected exchanges
\* in order, two per exchange, user then assistant, empty contents included
C9_StrictAlternation ==
    Composed =>
        /\ Alternates(last.context_messages)
        /\ [i \in 1..Len(last.context_messages) |-> last.context_messages[i].content]
               = ContentsOf(last.conversation_history)

\* C10: the history selected for a floor of m exchanges is a suffix of the stored
\* history of n exchanges with min(m, n) exchanges at least, and it is the result
\* of trimming to the budget when that has m exchanges or more
C10_MinimumExchanges ==
    Prepared =>
        LET m == last.minimum_exchanges
            n == Len(last.full_history)
            trimmed == LongestSuffixWithin(last.full_history,
                           StoredCounts(last.full_history),
                           last.budgets.conversation_memory)
            within == IF last.budgets.conversation_memory > 0 THEN trimmed ELSE <<>>
        IN  /\ IsSuffix(last.conversation_history, last.full_history)
            /\ Len(last.conversation_history) >= Min(m, n)
            /\ Len(within) >= m => last.conversation_history = within

\* the floor overrides the budget: two exchanges are selected where one fits or
\* none; and the budget rules where the floor is met
C10_Witness ==
    /\ Prepared
    /\ last.minimum_exchanges = 2
    /\ Len(last.full_history) = 3
    /\ Len(last.conversation_history) = 2
    /\ SumSeq(StoredCounts(last.conversation_history)) > last.budgets.conversation_memory

----------------------------------------------------------------------------
(* Claims about the validator, under SpecValidate *)

Validated == last.op = "validate_token_budgets"

C12_StrictWarningsInvalidate ==
    (Validated /\ strict /\ last.result.warnings # {}) => ~last.result.is_valid

----------------------------------------------------------------------------
(* Claims about the failure of the composer, under SpecTrim *)

ComposerCalled ==
    last.op \in {"prepare_context", "prepare_context_with_adaptive_budgets",
                 "interface_get_context_messages"}

\* C13 as stated: whenever a step of the composer fails, no exception reaches the
\* caller, who receives an empty message list together with an error field
C13_FailureYieldsEmptyWithError ==
    (ComposerCalled /\ last.failed)
    => /\ ~last.raised
       /\ "error" \in DOMAIN last.returned
       /\ last.returned.context_messages = <<>>

\* C13: when a step fails, prepare_context_with_adaptive_budgets returns an empty
\* message list together with an error field and raises nothing;
\* get_context_messages of the interface returns the empty list, with no error
\* field, and raises nothing; prepare_context_for_model of the manager raises
C13_FailureByLayer ==
    (ComposerCalled /\ last.failed)
    => CASE last.op = "prepare_context_with_adaptive_budgets" ->
                /\ ~last.raised
                /\ "error" \in DOMAIN last.returned
                /\ last.returned.context_messages = <<>>
         [] last.op = "interface_get_context_messages" ->
                ~last.raised /\ last.returned = <<>>
         [] last.op = "prepare_context" -> last.raised

\* the wrapper has caught the failure of a call on a stored conversation
C13_Witness ==
    /\ last.op = "prepare_context_with_adaptive_budgets"
    /\ last.failed
    /\ last.context_window = 0
    /\ memory[last.model] # <<>>
    /\ last.returned = [context_messages |-> <<>>, error |-> "MemoryError"]

----------------------------------------------------------------------------
(* Claims about the analyzer, under SpecAnalyze *)

Analyzed == last.op = "analyze_complexity"

\* C14 as stated: the keyword sub-score of "optimize" repeated 100 times is below
\* three times the keyword sub-score of "optimize" repeated twice
C14_SublinearKeywordScore ==
    (Analyzed /\ last.user_input = QOptimize100)
    => last.keyword_score < 3 * _calculate_keyword_complexity(QOptimize2, QOptimize2.len)

\* C15: the complexity score lies between 0 and 1 for every query and mode, and
\* is 0.1 for an empty, whitespace-only or non-string input
C15_ScoreInUnitInterval ==
    Analyzed =>
        /\ last.complexity >= 0
        /\ last.complexity <= 10000
        /\ (~last.user_input.isStr \/ last.user_input.len = 0)
           => last.complexity = 1000

\* a stuffed query in tools mode whose weighted sum, times 1.2, is clamped to 1
C15_Witness ==
    /\ Analyzed
    /\ last.mode = "tools"
    /\ last.complexity = 10000
    /\ last.keyword_score = 10000

----------------------------------------------------------------------------
(* Claims about the estimators, under SpecEstimate *)

Estimated == last.op = "estimate_tokens"

\* a str of ASCII letters and spaces only
OnlyLetters(text) ==
    IsStr(text) /\ text.emoji = 0 /\ text.symbols = 0 /\ text.nonascii = 0

\* C16 as stated: for a text of plain ASCII letters the estimate is
\* int((len(text) / 3.0) * 1.2), so that 300 letters "a" give exactly 120
C16_PlainEstimate ==
    (Estimated /\ OnlyLetters(last.text))
    => last.bundle = FloatInt(last.text, 10 * last.text.chars)

\* C16 as the code has it: for a non-empty text of ASCII letters in words of at
\* most 20 letters the estimate is max(1, int((len(text) / 3.0) * 1.2)); a word
\* over 20 letters adds a tenth of its excess before the multiplier, so that one
\* word of 300 letters "a" gives 153; memai.py's estimator gives len // 3
C16_PlainEstimateShortWords ==
    Estimated =>
        /\ (OnlyLetters(last.text) /\ last.text.chars > 0 /\ last.text.longw = 0)
           => last.bundle = Max(1, FloatInt(last.text, 10 * last.text.chars))
        /\ last.text = Mixed(0, 1, 280, 0, 0, 0)
           => last.text.chars = 300 /\ last.bundle = 153 /\ last.cli = 100
        /\ (OnlyLetters(last.text) /\ last.text.chars > 0)
           => last.cli = Max(1, last.text.chars \div 3)

\* the estimate of one word of 300 letters
C16_Witness ==
    /\ Estimated
    /\ last.text = Mixed(0, 1, 280, 0, 0, 0)
    /\ last.bundle = 153

\* C17 as stated: each estimator returns 0 for an empty or non-text argument
\* and at least 1 for every non-empty text, whatever it is made of
C17_ZeroOrAtLeastOne ==
    Estimated =>
        IF IsStr(last.text) /\ last.text.chars > 0
        THEN last.bundle >= 1 /\ last.cli >= 1
        ELSE last.bundle = 0 /\ last.cli = 0

----------------------------------------------------------------------------
(* Claims about the files of the stores, under SpecFiles *)

\* C18 as stated: add_exchange (with its trimming) and clear_conversation on a
\* model name leave the stored conversation of every other model name as it was
C18_PerIdentityIsolation ==
    last.op \in {"add_exchange", "clear_conversation"}
    => \A B \in IsolationModels \ {last.model} : Stored(B) = last.before[B]

----------------------------------------------------------------------------
(* Claims about the pairing of messages, under SpecMessages *)

Messaged == last.op = "add_message"

\* the message of the last call is an assistant message that found a user
\* message pending
Answered ==
    Messaged /\ last.role = "assistant" /\ "user" \in DOMAIN last.pending

\* the store has gained, under the model of the pending user message, one
\* exchange that pairs the pending user content with the content of the last call
GainedThePair ==
    LET to == last.pending.model
    IN  /\ \A m \in Models \ {to} : memory[m] = last.before[m]
        /\ Len(memory[to]) = Len(last.before[to]) + 1
        /\ SubSeq(memory[to], 1, Len(last.before[to])) = last.before[to]
        /\ memory[to][Len(memory[to])].user.content = last.pending.user.content
        /\ memory[to][Len(memory[to])].assistant.content = last.content

\* C19 as stated: the store gains an exchange only when an assistant message
\* arrives while a user message is pending, a user message alone never changes
\* the store, and every user message answered by an assistant message ends up
\* in a stored exchange that pairs the two
C19_ExchangeLifecycle ==
    Messaged =>
        /\ memory # last.before => Answered
        /\ last.role = "user" => memory = last.before
        /\ Answered => GainedThePair

\* C19 as the code has it: the store changes only when an assistant message
\* arrives while a user message is pending; then the pending message is
\* dropped, and the pair is appended under the model of the user message when
\* add_exchange succeeds and nothing is stored when it fails; a user message
\* replaces the pending one and leaves the store alone
C19_ExchangeLifecycleOnSuccess ==
    Messaged =>
        /\ memory # last.before => Answered /\ last.success
        /\ last.role = "user"
           => /\ memory = last.before
              /\ pending.user = [content |-> last.content, tokens |-> last.tokens]
              /\ pending.model = last.model
        /\ Answered
           => /\ DOMAIN pending = {}
              /\ IF last.success THEN GainedThePair ELSE memory = last.before
              /\ (~strict \/ ExchangeIsValid(last.pending.user.content, last.content))
                 \/ ~last.success

\* an assistant message for one model has completed the pending user message
\* of the other model
C19_Witness ==
    /\ Answered
    /\ last.success
    /\ last.pending.model # last.model
    /\ Len(memory[last.pending.model]) = 1
    /\ memory[last.model] = <<>>

----------------------------------------------------------------------------
(* Claims about loading persisted files, under SpecLoad *)

Loaded == last.op = "load_memory"

\* a record with metadata, a current_conversation list whose entries each have
\* user and assistant, and a summarized_conversations list
WellFormed(memory_data) ==
    /\ IsDict(memory_data)
    /\ Has(memory_data, "metadata") /\ IsDict(memory_data.items.metadata)
    /\ Has(memory_data, "current_conversation")
    /\ IsList(memory_data.items.current_conversation)
    /\ \A i \in DOMAIN memory_data.items.current_conversation.items :
          LET e == memory_data.items.current_conversation.items[i]
          IN  IsDict(e) /\ Has(e, "user") /\ Has(e, "assistant")
    /\ Has(memory_data, "summarized_conversations")
    /\ IsList(memory_data.items.summarized_conversations)

\* the file cannot be read as a record: it is no UTF-8, no JSON, or no dict
Unreadable(file) ==
    file.kind \in {"undecodable", "notjson"}
    \/ (file.kind = "json" /\ ~IsDict(file.value))

\* C20 as stated: load never raises and returns a well-formed record; a record
\* that is a dict keeps its valid exchanges in their order; an unreadable file
\* is replaced by a fresh empty record and kept as a backup
C20_LoadNeverRaises ==
    Loaded =>
        /\ ~last.bundle.raised
        /\ ~last.cli.raised
        /\ WellFormed(last.bundle.memory_data)
        /\ (last.file.kind = "json" /\ IsDict(last.file.value)
            /\ Has(last.file.value, "current_conversation")
            /\ IsList(last.file.value.items.current_conversation))
           => last.bundle.memory_data.items.current_conversation.items
              = ValidExchanges(last.file.value.items.current_conversation.items)
        /\ Unreadable(last.file)
           => /\ last.bundle.memory_data = _create_new_memory
              /\ last.bundle.backup

----------------------------------------------------------------------------
(* Claims about saving, under SpecSave *)

\* C21 as stated: when writing the store fails, add_exchange reports False
\* without raising, the stored conversation is as it was, and no temporary
\* file is left behind
C21_SaveFailureIsReported ==
    (last.op = "save" /\ last.fault # "none")
    => /\ ~last.raised
       /\ ~last.returned
       /\ (IF impl = "cli" THEN files["m1"] ELSE memory["m1"]) = last.before
       /\ last.temp_files = 0
----------------------------------------------------------------------------
(* Claims about the shares of the window, under SpecAlloc *)

\* a call without a minimum memory requirement that returned
NoMinimum ==
    AllocReturned /\ alloc.context_window > 0 /\ alloc.minimum_memory_needed = 0

\* the tokens of the window left unallocated
Headroom == alloc.context_window - TotalAllocated(alloc.budgets)

\* C22 as stated: with no minimum memory requirement the total allocation
\* stays below the context window with headroom between 5% and 25% of the
\* window, for every mode and complexity
C22_HeadroomFiveToTwentyFive ==
    NoMinimum
    => /\ Headroom * 100 >= 5 * alloc.context_window
       /\ Headroom * 100 <= 25 * alloc.context_window

\* C22 amended: with no minimum memory requirement, whenever the allocator
\* returns, the headroom is at least 20% of the window in chat mode and at
\* least 10% in tools mode, and for windows of at least 100 tokens at most 40%
\* in chat mode and at most 20% in tools mode (utilisation 60-80% and 80-90%)
C22_HeadroomByMode ==
    NoMinimum
    => LET chat == InteractionMode(alloc.mode) = "chat"
       IN  /\ Headroom * 100 >= (IF chat THEN 20 ELSE 10) * alloc.context_window
           /\ alloc.context_window >= 100
              => Headroom * 100 <= (IF chat THEN 40 ELSE 20) * alloc.context_window

\* a chat allocation for a large window that leaves more than a quarter of it
C22_Witness ==
    /\ NoMinimum
    /\ InteractionMode(alloc.mode) = "chat"
    /\ alloc.context_window >= 100
    /\ Headroom * 100 > 25 * alloc.context_window
    /\ analyze_complexity(alloc.user_input, alloc.mode) > 5000

\* C23: the conversation_memory percentage is memory_max - complexity *
\* (memory_max - memory_min) for every complexity in [0, 1]: the reduction,
\* in 10^-8 percent, is the complexity (10^-4) times the memory range
C23_MemoryLinearInComplexity ==
    alloc.called
    => LET ranges == adaptive_ranges[InteractionMode(alloc.mode)]
           complexity == analyze_complexity(alloc.user_input, alloc.mode)
       IN  /\ ~alloc.raised
           /\ memory_reduction(alloc.mode, complexity)
                  = complexity * (ranges.memory_max - ranges.memory_min) * 10000

\* C24: for every mode and two reachable complexity scores c1 <= c2 the
\* response share does not shrink and the memory share does not grow from c1
\* to c2, both shares stay within their ranges, and the computation never
\* divides by zero
C24_InverseMovement ==
    alloc.called
    => LET ranges == adaptive_ranges[InteractionMode(alloc.mode)]
           c2 == analyze_complexity(alloc.user_input, alloc.mode)
       IN  /\ ~alloc.raised
           /\ ResponseGain(alloc.mode, c2) >= 0
           /\ ResponseGain(alloc.mode, c2)
                  <= (ranges.response_max - ranges.response_min) * 10000
           /\ memory_reduction(alloc.mode, c2) >= 0
           /\ memory_reduction(alloc.mode, c2)
                  <= (ranges.memory_max - ranges.memory_min) * 100000000
           /\ \A q \in Queries :
                  LET c1 == analyze_complexity(q, alloc.mode)
                  IN  c1 <= c2
                      => /\ ResponseGain(alloc.mode, c1) <= ResponseGain(alloc.mode, c2)
                         /\ memory_reduction(alloc.mode, c1)
                                <= memory_reduction(alloc.mode, c2)

\* C25: compared with the allocation before the override, reserved and
\* response_generation are never larger afterwards, and when reserved alone
\* covers the shortfall the total of the buckets is unchanged
C25_OverrideOnlyTakes ==
    (AllocReturned /\ alloc.context_window > 0)
    => /\ alloc.budgets.reserved <= alloc.base.reserved
       /\ alloc.budgets.response_generation <= alloc.base.response_generation
       /\ (/\ alloc.minimum_memory_needed > alloc.base.conversation_memory
           /\ alloc.minimum_memory_needed - alloc.base.conversation_memory
                  <= alloc.base.reserved)
          => TotalAllocated(alloc.budgets) = TotalAllocated(alloc.base)

\* C26: for every mode string other than exactly "chat" or "tools" the
\* allocator returns what it returns for "chat" with the same window, query
\* and minimum memory
C26_UnknownModeIsChat ==
    (alloc.called /\ alloc.mode \notin {"chat", "tools"})
    => /\ alloc.raised = DividesByZero("chat", alloc.user_input)
       /\ ~alloc.raised
          => alloc.budgets = calculate_adaptive_budgets(alloc.context_window, "chat",
                                 alloc.user_input, alloc.minimum_memory_needed)
\* two reachable scores that differ: the response share grew and the memory
\* share shrank from the lower one to the higher one
C24_Witness ==
    /\ AllocReturned
    /\ \E q \in Queries :
           LET c1 == analyze_complexity(q, alloc.mode)
               c2 == analyze_complexity(alloc.user_input, alloc.mode)
           IN  /\ c1 < c2
               /\ ResponseGain(alloc.mode, c1) < ResponseGain(alloc.mode, c2)
               /\ memory_reduction(alloc.mode, c1) < memory_reduction(alloc.mode, c2)
               /\ alloc.base.response_generation * 100 > 20 * alloc.context_window
----------------------------------------------------------------------------
(* Claims about non-positive context windows, under SpecTrim *)

\* C27: prepareContext called with a context window <= 0 gives the caller an
\* empty message list together with an error indication, and the validator
\* reports such a window as invalid without evaluating any other check
C27_NonPositiveWindowIsAnError ==
    (/\ last.op = "prepare_context_with_adaptive_budgets"
     /\ last.available
     /\ last.context_window <= 0)
    => /\ ~last.raised
       /\ last.returned.context_messages = <<>>
       /\ "error" \in DOMAIN last.returned
       /\ validate_token_budgets(calculate_adaptive_budgets(last.context_window, "chat", QHi, 0),
                                 last.context_window, analyze_complexity(QHi, "chat"))
              = [ValidationResult EXCEPT !.is_valid = FALSE,
                                         !.errors = {"invalid_context_window"}]
----------------------------------------------------------------------------
(* Claims about clearing, under SpecClear *)

\* C28: after clear_conversation on a model its history reads as empty and the
\* next add_exchange yields a conversation of exactly one exchange; in the
\* per-model store the metadata is kept, one summary entry is appended to
\* summarized_conversations exactly when the cleared conversation was not
\* empty, and metadata.total_exchanges is the length of the conversation after
\* every save
C28_Clear ==
    /\ (last.op = "clear_conversation" /\ last.ok)
       => /\ StoredConversation(last.model) = <<>>
          /\ impl = "bundle"
             => LET stored == memory[last.model]
                    before == last.before
                IN  /\ stored.metadata.model = before.metadata.model
                    /\ stored.metadata.created_at = before.metadata.created_at
                    /\ stored.metadata.version = before.metadata.version
                    /\ Len(stored.summarized_conversations)
                           = Len(before.summarized_conversations)
                             + (IF before.current_conversation # <<>> THEN 1 ELSE 0)
                    /\ SubSeq(stored.summarized_conversations, 1,
                              Len(before.summarized_conversations))
                           = before.summarized_conversations
                    /\ before.current_conversation # <<>>
                       => stored.summarized_conversations[
                              Len(stored.summarized_conversations)].exchange_count
                          = Len(before.current_conversation)
    /\ (last.op = "add_exchange" /\ last.ok /\ Len(appended[last.model]) = 1)
       => StoredConversation(last.model) = <<last.exchange>>
    /\ \A m \in Models :
           (impl = "bundle" /\ memory[m].exists)
           => memory[m].metadata.total_exchanges = Len(memory[m].current_conversation)

\* a conversation of two exchanges was cleared into a second summary, and the
\* store of the model holds nothing but its metadata and its summaries
C28_Witness ==
    /\ impl = "bundle"
    /\ last.op = "clear_conversation"
    /\ last.ok
    /\ Len(last.before.current_conversation) = 2
    /\ Len(memory[last.model].summarized_conversations) = 2
    /\ memory[last.model].current_conversation = <<>>
    /\ memory[last.model].metadata.total_exchanges = 0
----------------------------------------------------------------------------
(* Claims about the background save, under SpecAsync *)

\* the store file holds the complete text of one conversation
StoreIsOneSnapshot ==
    files.store # 0 => \E n \in 0..MaxAppends : files.inodes[files.store] = Snapshot(n)

\* C29: when save_memory_async runs concurrently with another save of the same
\* store, under every interleaving the store file always holds one complete
\* snapshot written by one of the saves, never a mix of two writes, and a store
\* file that exists never goes missing
C29_StoreAlwaysOneSnapshot ==
    /\ []StoreIsOneSnapshot
    /\ [][files.store # 0 => files'.store # 0]_vars
----------------------------------------------------------------------------
(* Claims about the migration, under SpecMigrate *)

\* the contents of the exchanges of a store, in order
Exchanged(conversation) ==
    [k \in DOMAIN conversation |->
        <<conversation[k].user.content, conversation[k].assistant.content>>]

\* C30: running migrate_legacy_memory a second time on the same legacy file
\* leaves each per-model conversation with the same exchanges as after the
\* first run, and again reports success
C30_MigrationIdempotent ==
    (last.op = "migrate_legacy_memory" /\ last.run >= 2 /\ last.previous)
    => /\ last.returned
       /\ \A m \in Models : Exchanged(memory[m]) = Exchanged(last.before[m])
====
